---- MODULE Spec2Model ----
(***************************************************************************)
(* A model of the js-utils helper library (validators, formatters, file    *)
(* metadata helpers).  Every helper is a pure function: it is modelled as  *)
(* an operator computed the way the source computes it, and each           *)
(* specification below calls one helper (or one family of helpers) on      *)
(* every input of a bounded set and records the call.                      *)
(*                                                                         *)
(* A JavaScript string is a sequence of one-character strings.  A call is   *)
(* the record of its arguments; an optional argument or option left out is *)
(* a key absent from the record, and the default then applies.             *)
(***************************************************************************)
EXTENDS Integers, Sequences, FiniteSets, TLC

\* fn: the helper being called; args: its arguments; pc: "call" before the
\* helper has run and "done" after; result: what it returned.
VARIABLES fn, args, result, pc

vars == <<fn, args, result, pc>>

(***************************************************************************)
(* Characters and strings                                                  *)
(***************************************************************************)

DigitChars == <<"0", "1", "2", "3", "4", "5", "6", "7", "8", "9">>

UpperChars == <<"A", "B", "C", "D", "E", "F", "G", "H", "I", "J", "K", "L", "M",
                "N", "O", "P", "Q", "R", "S", "T", "U", "V", "W", "X", "Y", "Z">>

LowerChars == <<"a", "b", "c", "d", "e", "f", "g", "h", "i", "j", "k", "l", "m",
                "n", "o", "p", "q", "r", "s", "t", "u", "v", "w", "x", "y", "z">>

Range(f) == {f[i] : i \in DOMAIN f}

\* The regular expression class \d.
IsDigit(c) == c \in Range(DigitChars)

\* The regular expression class [A-Z].
IsUpper(c) == c \in Range(UpperChars)

\* The regular expression class [a-z].
IsLower(c) == c \in Range(LowerChars)

\* The regular expression class \w.
IsWord(c) == IsDigit(c) \/ IsUpper(c) \/ IsLower(c) \/ c = "_"

\* The regular expression class \s (the members that the inputs use).
IsSpace(c) == c \in {" ", "\t", "\n"}

\* parseInt(c, 10) of one decimal digit.
DigitValue(c) == (CHOOSE i \in DOMAIN DigitChars : DigitChars[i] = c) - 1

\* String.prototype.toLowerCase on one character.
LowerOf(c) ==
    IF IsUpper(c)
    THEN LowerChars[CHOOSE i \in DOMAIN UpperChars : UpperChars[i] = c]
    ELSE c

\* String.prototype.toLowerCase.
toLowerCase(s) == [i \in 1..Len(s) |-> LowerOf(s[i])]

\* text.replace(/\s/g, '').
StripSpaces(s) == SelectSeq(s, LAMBDA c : ~IsSpace(c))

\* Every string over the alphabet A of at most n characters.
StringsUpTo(A, n) == UNION {[1..m -> A] : m \in 0..n}

RECURSIVE Repeat(_, _)
\* String.prototype.repeat.
Repeat(s, n) == IF n <= 0 THEN <<>> ELSE s \o Repeat(s, n - 1)

Min(a, b) == IF a < b THEN a ELSE b

Max(a, b) == IF a > b THEN a ELSE b

\* String.prototype.slice(start, end): a negative index counts from the end,
\* both indices are clamped to 0..length.
Slice(s, start, end) ==
    LET len  == Len(s)
        from == IF start < 0 THEN Max(len + start, 0) ELSE Min(start, len)
        to   == IF end < 0 THEN Max(len + end, 0) ELSE Min(end, len)
    IN  IF from >= to THEN <<>> ELSE SubSeq(s, from + 1, to)

\* String.prototype.slice(start) with no end.
SliceFrom(s, start) == Slice(s, start, Len(s))

\* A call of helper f on one argument record of the set inputs, not yet run.
Calling(f, inputs) ==
    /\ fn = f
    /\ args \in inputs
    /\ result = <<>>
    /\ pc = "call"

\* The call of helper f has returned.
Done(f) == fn = f /\ pc = "done"

(***************************************************************************)
(* isValidCreditCard                                                       *)
(***************************************************************************)

MaxCardLen == 4

CardAlphabet == Range(DigitChars) \cup {" ", "x"}

\* The card numbers of the validation tests.
Card4532015112830366 ==
    <<"4", "5", "3", "2", "0", "1", "5", "1", "1", "2", "8", "3", "0", "3", "6", "6">>

Card6011000990139424 ==
    <<"6", "0", "1", "1", "0", "0", "0", "9", "9", "0", "1", "3", "9", "4", "2", "4">>

Card1234567890123456 ==
    <<"1", "2", "3", "4", "5", "6", "7", "8", "9", "0", "1", "2", "3", "4", "5", "6">>

CardInvalidWord == <<"i", "n", "v", "a", "l", "i", "d">>

CardInputs ==
    StringsUpTo(CardAlphabet, MaxCardLen)
        \cup {Card4532015112830366, Card6011000990139424, Card1234567890123456,
              CardInvalidWord, <<"4", "5", "3", "2", " ", "0", "1", "5", "1", " ",
                                 "1", "2", "8", "3", " ", "0", "3", "6", "6">>}

RECURSIVE LuhnLoop(_, _, _, _)
\* The for loop of isValidCreditCard: i runs over the 0-based indices
\* length-1 .. 0, and the value is the sum when the loop ends.
LuhnLoop(cleaned, i, sum, isEven) ==
    IF i < 0
    THEN sum
    ELSE LET parsed  == DigitValue(cleaned[i + 1])
             doubled == parsed * 2
             digit   == IF isEven
                        THEN (IF doubled > 9 THEN doubled - 9 ELSE doubled)
                        ELSE parsed
         IN  LuhnLoop(cleaned, i - 1, sum + digit, ~isEven)

\* A slip: the doubling starts at the rightmost digit.
isValidCreditCard_doubleFirst(cardNumber) ==
    LET cleaned == StripSpaces(cardNumber)
    IN  IF ~(cleaned # <<>> /\ \A j \in 1..Len(cleaned) : IsDigit(cleaned[j]))
        THEN FALSE
        ELSE LuhnLoop(cleaned, Len(cleaned) - 1, 0, TRUE) % 10 = 0

\* A slip: a doubled digit above 9 is added as it is, without the
\* subtraction of 9.
isValidCreditCard_keepDoubled(cardNumber) ==
    LET cleaned == StripSpaces(cardNumber)
        term(k) == LET d == DigitValue(cleaned[Len(cleaned) - k + 1])
                   IN  IF k % 2 = 1 THEN d ELSE 2 * d
        total[k \in 0..Len(cleaned)] ==
            IF k = 0 THEN 0 ELSE total[k - 1] + term(k)
    IN  IF ~(cleaned # <<>> /\ \A j \in 1..Len(cleaned) : IsDigit(cleaned[j]))
        THEN FALSE
        ELSE total[Len(cleaned)] % 10 = 0

isValidCreditCard(cardNumber) ==
    LET cleaned == StripSpaces(cardNumber)
    IN  IF ~(cleaned # <<>> /\ \A j \in 1..Len(cleaned) : IsDigit(cleaned[j]))
        THEN FALSE
        ELSE LuhnLoop(cleaned, Len(cleaned) - 1, 0, FALSE) % 10 = 0

InitCreditCard ==
    Calling("isValidCreditCard", {[cardNumber |-> c] : c \in CardInputs})

Call_isValidCreditCard ==
    /\ pc = "call"
    /\ fn = "isValidCreditCard"
    /\ result' = isValidCreditCard(args.cardNumber)
    /\ pc' = "done"
    /\ UNCHANGED <<fn, args>>

NextCreditCard == Call_isValidCreditCard

SpecCreditCard == InitCreditCard /\ [][NextCreditCard]_vars

\* The Luhn sum as the checksum defines it: the k-th digit from the right
\* (k = 1 for the rightmost) counts as itself when k is odd, and as its
\* double, less 9 when the double exceeds 9, when k is even.
LuhnTerm(d, k) ==
    IF k % 2 = 1 THEN d ELSE IF 2 * d > 9 THEN 2 * d - 9 ELSE 2 * d

RECURSIVE LuhnSumFromRight(_, _)
LuhnSumFromRight(digits, k) ==
    IF k > Len(digits)
    THEN 0
    ELSE LuhnTerm(DigitValue(digits[Len(digits) - k + 1]), k)
             + LuhnSumFromRight(digits, k + 1)

\* C1: isValidCreditCard returns true if and only if the input, with its
\* whitespace removed, is a non-empty string of decimal digits whose Luhn sum
\* is divisible by 10; any other character makes the result false.  The two
\* test numbers 4532015112830366 and 6011000990139424 validate, and
\* 1234567890123456 does not.
C1_LuhnIff ==
    Done("isValidCreditCard") =>
        LET cleaned == StripSpaces(args.cardNumber)
            digits  == cleaned # <<>> /\ \A j \in 1..Len(cleaned) : IsDigit(cleaned[j])
        IN  /\ result = (digits /\ LuhnSumFromRight(cleaned, 1) % 10 = 0)
            /\ args.cardNumber \in {Card4532015112830366, Card6011000990139424}
                   => result = TRUE
            /\ args.cardNumber \in {Card1234567890123456, CardInvalidWord}
                   => result = FALSE

\* A card number with embedded whitespace is accepted, one of its doubled
\* digits having needed the subtraction of 9.
C1_Witness ==
    /\ Done("isValidCreditCard")
    /\ result = TRUE
    /\ \E j \in 2..(Len(args.cardNumber) - 1) : IsSpace(args.cardNumber[j])
    /\ LET cleaned == StripSpaces(args.cardNumber)
       IN  /\ Len(cleaned) >= 3
           /\ DigitValue(cleaned[Len(cleaned) - 1]) >= 5

(***************************************************************************)
(* validatePassword                                                        *)
(***************************************************************************)

MaxPasswordLen == 3

DefaultMinLength == 8

\* The characters of the class [!@#$%^&*(),.?":{}|<>].
SpecialChars ==
    {"!", "@", "#", "$", "%", "^", "&", "*", "(", ")", ",", ".", "?", "\"", ":",
     "{", "}", "|", "<", ">"}

PasswordAlphabet == {"A", "a", "1", "!", "-"}

\* The passwords of the validation tests, and two that fail one check only.
PasswordMyPAssw0rd == <<"M", "y", "P", "@", "s", "s", "w", "0", "r", "d">>

PasswordTests ==
    {PasswordMyPAssw0rd,
     <<"m", "y", "p", "@", "s", "s", "w", "0", "r", "d">>,
     <<"S", "h", "o", "r", "t", "1", "!">>,
     <<"M", "y", "P", "a", "s", "s", "w", "o", "r", "d", "!">>,
     <<"M", "y", "P", "a", "s", "s", "w", "0", "r", "d", "_">>,
     <<"M", "Y", "P", "@", "S", "S", "W", "0", "R", "D">>}

PasswordInputs == StringsUpTo(PasswordAlphabet, MaxPasswordLen) \cup PasswordTests

ToggleKeys ==
    {"requireUppercase", "requireLowercase", "requireNumbers", "requireSpecialChars"}

\* The options objects: every subset of the toggles, each given as true or
\* false, with or without a minLength.
PasswordOptions ==
    LET toggles == UNION {[K -> BOOLEAN] : K \in SUBSET ToggleKeys}
    IN  toggles \cup
            {("minLength" :> n) @@ t : n \in {2, 10}, t \in toggles}

\* A destructuring default: the option when the key is given, else dflt.
OptionOr(options, key, dflt) ==
    IF key \in DOMAIN options THEN options[key] ELSE dflt

\* regex.test(password) for a character class, given as its members.
HasChar(password, class) ==
    \E i \in 1..Len(password) : password[i] \in class

LengthMessage(minLength) ==
    "Password must be at least " \o ToString(minLength) \o " characters long"

UppercaseMessage == "Password must contain at least one uppercase letter"

LowercaseMessage == "Password must contain at least one lowercase letter"

NumbersMessage == "Password must contain at least one number"

SpecialMessage == "Password must contain at least one special character"

\* errors.push(message) when the check fails.
PushIf(errors, failed, message) ==
    IF failed THEN Append(errors, message) ELSE errors

\* A slip: the length check rejects a password of exactly minLength characters.
validatePassword_lengthInclusive(password, options) ==
    LET minLength           == OptionOr(options, "minLength", DefaultMinLength)
        requireUppercase    == OptionOr(options, "requireUppercase", TRUE)
        requireLowercase    == OptionOr(options, "requireLowercase", TRUE)
        requireNumbers      == OptionOr(options, "requireNumbers", TRUE)
        requireSpecialChars == OptionOr(options, "requireSpecialChars", TRUE)
        e0 == <<>>
        e1 == PushIf(e0, Len(password) <= minLength, LengthMessage(minLength))
        e2 == PushIf(e1, requireUppercase /\ ~HasChar(password, Range(UpperChars)),
                     UppercaseMessage)
        e3 == PushIf(e2, requireLowercase /\ ~HasChar(password, Range(LowerChars)),
                     LowercaseMessage)
        e4 == PushIf(e3, requireNumbers /\ ~HasChar(password, Range(DigitChars)),
                     NumbersMessage)
        e5 == PushIf(e4, requireSpecialChars /\ ~HasChar(password, SpecialChars),
                     SpecialMessage)
    IN  [isValid |-> Len(e5) = 0, errors |-> e5]

validatePassword(password, options) ==
    LET minLength           == OptionOr(options, "minLength", DefaultMinLength)
        requireUppercase    == OptionOr(options, "requireUppercase", TRUE)
        requireLowercase    == OptionOr(options, "requireLowercase", TRUE)
        requireNumbers      == OptionOr(options, "requireNumbers", TRUE)
        requireSpecialChars == OptionOr(options, "requireSpecialChars", TRUE)
        e0 == <<>>
        e1 == PushIf(e0, Len(password) < minLength, LengthMessage(minLength))
        e2 == PushIf(e1, requireUppercase /\ ~HasChar(password, Range(UpperChars)),
                     UppercaseMessage)
        e3 == PushIf(e2, requireLowercase /\ ~HasChar(password, Range(LowerChars)),
                     LowercaseMessage)
        e4 == PushIf(e3, requireNumbers /\ ~HasChar(password, Range(DigitChars)),
                     NumbersMessage)
        e5 == PushIf(e4, requireSpecialChars /\ ~HasChar(password, SpecialChars),
                     SpecialMessage)
    IN  [isValid |-> Len(e5) = 0, errors |-> e5]

InitPassword ==
    Calling("validatePassword",
            [password : PasswordInputs, options : PasswordOptions])

Call_validatePassword ==
    /\ pc = "call"
    /\ fn = "validatePassword"
    /\ result' = validatePassword(args.password, args.options)
    /\ pc' = "done"
    /\ UNCHANGED <<fn, args>>

NextPassword == Call_validatePassword

SpecPassword == InitPassword /\ [][NextPassword]_vars

\* The five checks in the fixed order, each with its message, whether the
\* options enable it (a toggle left out is enabled, the length check always
\* is, with 8 for a minLength left out) and whether the password fails it.
PasswordChecks(password, options) ==
    LET on(key) == key \notin DOMAIN options \/ options[key]
        min     == IF "minLength" \in DOMAIN options THEN options.minLength ELSE 8
    IN  << [message |-> LengthMessage(min), enabled |-> TRUE,
            fails |-> Len(password) < min],
           [message |-> UppercaseMessage, enabled |-> on("requireUppercase"),
            fails |-> \A i \in 1..Len(password) : ~IsUpper(password[i])],
           [message |-> LowercaseMessage, enabled |-> on("requireLowercase"),
            fails |-> \A i \in 1..Len(password) : ~IsLower(password[i])],
           [message |-> NumbersMessage, enabled |-> on("requireNumbers"),
            fails |-> \A i \in 1..Len(password) : ~IsDigit(password[i])],
           [message |-> SpecialMessage, enabled |-> on("requireSpecialChars"),
            fails |-> \A i \in 1..Len(password) : password[i] \notin SpecialChars] >>

\* C2: for every password and every combination of options, isValid is true
\* exactly when the errors list is empty, and the errors list is the
\* subsequence of the fixed order (length, uppercase, lowercase, numbers,
\* special characters) holding the message of a check exactly when that check
\* is enabled and fails.
C2_ErrorsInFixedOrder ==
    Done("validatePassword") =>
        LET checks   == PasswordChecks(args.password, args.options)
            reported == SelectSeq(checks, LAMBDA c : c.enabled /\ c.fails)
        IN  /\ result.isValid = (result.errors = <<>>)
            /\ result.errors = [i \in 1..Len(reported) |-> reported[i].message]

\* A password of exactly minLength characters that fails two enabled checks,
\* while a disabled check that it would fail is not reported.
C2_Witness ==
    /\ Done("validatePassword")
    /\ "minLength" \in DOMAIN args.options
    /\ Len(args.password) = args.options.minLength
    /\ Len(args.password) > 0
    /\ Len(result.errors) = 2
    /\ ~result.isValid
    /\ \E c \in Range(PasswordChecks(args.password, args.options)) :
           ~c.enabled /\ c.fails

(***************************************************************************)
(* formatFileSize                                                          *)
(*                                                                         *)
(* A byte count is the number m * 1024^e, held as the record [m, e]: the   *)
(* counts of interest reach 1024^6, beyond the integers of the model       *)
(* checker.  With m below 2^21 every such count is a double, bytes / k^i   *)
(* is exact (a division by a power of two), and toFixed rounds its exact   *)
(* value.  Math.floor(Math.log(bytes) / Math.log(k)) is taken as the exact *)
(* floor of the logarithm.                                                 *)
(***************************************************************************)

MaxMantissa == 2100

MaxExponent == 6

MaxDecimals == 3

k == 1024

sizes ==
    << <<"B", "y", "t", "e", "s">>, <<"K", "B">>, <<"M", "B">>, <<"G", "B">>,
       <<"T", "B">>, <<"P", "B">> >>

UndefinedText == <<"u", "n", "d", "e", "f", "i", "n", "e", "d">>

RECURSIVE Pow(_, _)
\* Math.pow on non-negative integers.
Pow(b, n) == IF n = 0 THEN 1 ELSE b * Pow(b, n - 1)

RECURSIVE FloorLog(_, _)
\* Math.floor(Math.log(n) / Math.log(b)) for an integer n >= 1.
FloorLog(n, b) == IF n < b THEN 0 ELSE 1 + FloorLog(n \div b, b)

RECURSIVE NatToString(_)
\* The decimal digits of a non-negative integer.
NatToString(n) ==
    IF n < 10
    THEN <<DigitChars[n + 1]>>
    ELSE Append(NatToString(n \div 10), DigitChars[(n % 10) + 1])

RECURSIVE PadZeros(_, _)
\* The digit string s with zeros in front, up to width characters.
PadZeros(s, width) == IF Len(s) >= width THEN s ELSE PadZeros(<<"0">> \o s, width)

\* The decimal n / 10^scale printed with exactly scale fractional digits.
DecimalText(n, scale) ==
    IF scale = 0
    THEN NatToString(n)
    ELSE NatToString(n \div Pow(10, scale)) \o <<".">>
             \o PadZeros(NatToString(n % Pow(10, scale)), scale)

\* Number.prototype.toFixed(dm) of the non-negative value num / den: the
\* nearest multiple of 10^-dm, the larger one on a tie, with dm fractional
\* digits.
toFixed(num, den, dm) ==
    DecimalText((2 * num * Pow(10, dm) + den) \div (2 * den), dm)

RECURSIVE ParseDigits(_, _)
\* The number that a digit string spells, acc being the digits read so far.
ParseDigits(s, acc) ==
    IF s = <<>> THEN acc ELSE ParseDigits(Tail(s), 10 * acc + DigitValue(Head(s)))

\* parseFloat of an unsigned decimal string: the number n / 10^scale.
parseFloat(s) ==
    LET dots  == {i \in 1..Len(s) : s[i] = "."}
        point == IF dots = {} THEN Len(s) + 1 ELSE CHOOSE i \in dots : TRUE
    IN  [n     |-> ParseDigits(SelectSeq(s, IsDigit), 0),
         scale |-> Len(s) - Min(point, Len(s))]

RECURSIVE NumberToString(_)
\* Number::toString of the non-negative number n / 10^scale: the shortest
\* decimal that spells it, so no trailing zero and no point without digits.
NumberToString(x) ==
    IF x.scale > 0 /\ x.n % 10 = 0
    THEN NumberToString([n |-> x.n \div 10, scale |-> x.scale - 1])
    ELSE DecimalText(x.n, x.scale)

\* sizes[i], which is undefined outside the array and then concatenates as
\* the text "undefined".
SizeAt(i) == IF i + 1 \in DOMAIN sizes THEN sizes[i + 1] ELSE UndefinedText

formatFileSize(bytes, decimals) ==
    IF bytes.m = 0
    THEN <<"0", " ">> \o sizes[1]
    ELSE LET dm  == IF decimals < 0 THEN 0 ELSE decimals
             j   == FloorLog(bytes.m, k)
             i   == bytes.e + j
         IN  NumberToString(parseFloat(toFixed(bytes.m, Pow(k, j), dm)))
                 \o <<" ">> \o SizeAt(i)

\* The byte count n as a record.
Bytes(n) == [m |-> n, e |-> 0]

FileSizeInputs ==
    LET counts == [m : 0..MaxMantissa, e : 0..MaxExponent]
    IN  [bytes : counts] \cup [bytes : counts, decimals : -1..MaxDecimals]

InitFileSize == Calling("formatFileSize", FileSizeInputs)

Call_formatFileSize ==
    /\ pc = "call"
    /\ fn = "formatFileSize"
    /\ result' = formatFileSize(args.bytes, OptionOr(args, "decimals", 2))
    /\ pc' = "done"
    /\ UNCHANGED <<fn, args>>

NextFileSize == Call_formatFileSize

SpecFileSize == InitFileSize /\ [][NextFileSize]_vars

\* The text before the first space of a formatted size, and the text after it.
SizeNumber(text) ==
    SubSeq(text, 1, (CHOOSE i \in 1..Len(text) : text[i] = " " /\
                        \A h \in 1..(i - 1) : text[h] # " ") - 1)

SizeUnit(text) == SubSeq(text, Len(SizeNumber(text)) + 2, Len(text))

\* The number of digits after the point of a decimal text.
FractionDigits(number) ==
    IF \E i \in 1..Len(number) : number[i] = "."
    THEN Len(number) - (CHOOSE i \in 1..Len(number) : number[i] = ".")
    ELSE 0

RECURSIVE IsCount(_, _)
\* Whether the record bytes is the byte count n.
IsCount(bytes, n) ==
    IF bytes.e = 0
    THEN bytes.m = n
    ELSE n % k = 0 /\ IsCount([m |-> bytes.m, e |-> bytes.e - 1], n \div k)

\* A call of formatFileSize(n, decimals) has returned text.
FormatsAs(n, decimals, text) ==
    (/\ Done("formatFileSize")
     /\ IsCount(args.bytes, n)
     /\ "decimals" \in DOMAIN args
     /\ args.decimals = decimals) => result = text

\* A call of formatFileSize(n), decimals left out, has returned text.
FormatsByDefaultAs(n, text) ==
    (/\ Done("formatFileSize")
     /\ IsCount(args.bytes, n)
     /\ "decimals" \notin DOMAIN args) => result = text

\* C3: formatFileSize prints the scaled value with exactly `decimals`
\* fractional digits, trailing zeros included (default 2):
\* formatFileSize(1024) = '1.00 KB', formatFileSize(1048576) = '1.00 MB',
\* formatFileSize(1073741824) = '1.00 GB', formatFileSize(1536, 1) = '1.5 KB',
\* formatFileSize(1536, 0) = '2 KB' and formatFileSize(0) = '0 Bytes'.
C3_ExactDecimals ==
    /\ (Done("formatFileSize") /\ args.bytes.m > 0) =>
           FractionDigits(SizeNumber(result)) =
               Max(OptionOr(args, "decimals", 2), 0)
    /\ FormatsByDefaultAs(1024, <<"1", ".", "0", "0", " ", "K", "B">>)
    /\ FormatsByDefaultAs(1048576, <<"1", ".", "0", "0", " ", "M", "B">>)
    /\ FormatsByDefaultAs(1073741824, <<"1", ".", "0", "0", " ", "G", "B">>)
    /\ FormatsAs(1536, 1, <<"1", ".", "5", " ", "K", "B">>)
    /\ FormatsAs(1536, 0, <<"2", " ", "K", "B">>)
    /\ FormatsByDefaultAs(0, <<"0", " ", "B", "y", "t", "e", "s">>)

\* Whether 1024^n <= bytes, for n in 0..5 and bytes >= 1.
AtLeastPow(bytes, n) ==
    \/ n <= bytes.e
    \/ n - bytes.e <= 2 /\ Pow(k, n - bytes.e) <= bytes.m

\* C4: for every positive integer byte count the unit is one of Bytes, KB,
\* MB, GB, TB, PB, and it is the one with the largest exponent n in 0..5 such
\* that 1024^n <= bytes; a count of 1024^6 or more is still reported in one
\* of these six units.
C4_LargestUnit ==
    (Done("formatFileSize") /\ args.bytes.m > 0) =>
        LET largest == CHOOSE n \in 0..5 :
                           /\ AtLeastPow(args.bytes, n)
                           /\ \A h \in (n + 1)..5 : ~AtLeastPow(args.bytes, h)
        IN  /\ SizeUnit(result) \in Range(sizes)
            /\ SizeUnit(result) = sizes[largest + 1]

(***************************************************************************)
(* formatNumber                                                            *)
(*                                                                         *)
(* A number is held as the parts of its decimal spelling: its sign, the    *)
(* digits of its integer part and the digits of its fraction (none for an  *)
(* integer, never ending in 0).  Number.prototype.toString spells such a   *)
(* number in this form when its magnitude is in [1e-6, 1e21).              *)
(***************************************************************************)

MaxIntDigits == 5

MaxFracDigits == 4

NumberDigits == {"0", "1", "7"}

\* The numbers of the model, and those of the documentation's examples.
NumberInputs ==
    LET ints  == {d \in StringsUpTo(NumberDigits, MaxIntDigits) :
                      Len(d) >= 1 /\ (Len(d) > 1 => d[1] # "0")}
        fracs == {d \in StringsUpTo(NumberDigits, MaxFracDigits) :
                      d = <<>> \/ d[Len(d)] # "0"}
        all   == [neg : BOOLEAN, int : ints, frac : fracs]
    IN  {v \in all : ~(v.neg /\ v.int = <<"0">> /\ v.frac = <<>>)}
            \cup {[neg |-> FALSE, int |-> <<"1", "2", "3", "4", "5", "6", "7">>,
                   frac |-> <<>>],
                  [neg |-> FALSE, int |-> <<"1", "2", "3", "4">>,
                   frac |-> <<"5", "6", "7", "8">>]}

\* value.toString().
NumberSpelling(value) ==
    (IF value.neg THEN <<"-">> ELSE <<>>) \o value.int
        \o (IF value.frac = <<>> THEN <<>> ELSE <<".">> \o value.frac)

\* Whether the character at 1-based index i of s is a word character; there
\* is none before the first or after the last.
WordAt(s, i) == i \in 1..Len(s) /\ IsWord(s[i])

\* Whether /\B(?=(\d{3})+(?!\d))/ matches at the position after the first p
\* characters of s: no word boundary there, and some positive number of
\* groups of three digits follows, with no digit after them.
ThousandsMatch(s, p) ==
    /\ WordAt(s, p) = WordAt(s, p + 1)
    /\ \E groups \in 1..(Len(s) \div 3) :
           /\ p + 3 * groups <= Len(s)
           /\ \A i \in (p + 1)..(p + 3 * groups) : IsDigit(s[i])
           /\ ~(p + 3 * groups + 1 <= Len(s) /\ IsDigit(s[p + 3 * groups + 1]))

RECURSIVE ReplaceThousands(_, _, _)
\* s.replace(/\B(?=(\d{3})+(?!\d))/g, separator) from position p on: the
\* separator goes in at every position that matches.
ReplaceThousands(s, separator, p) ==
    (IF ThousandsMatch(s, p) THEN separator ELSE <<>>)
        \o (IF p >= Len(s)
            THEN <<>>
            ELSE <<s[p + 1]>> \o ReplaceThousands(s, separator, p + 1))

formatNumber(value, separator) ==
    ReplaceThousands(NumberSpelling(value), separator, 0)

InitNumber ==
    Calling("formatNumber",
            [value : NumberInputs]
                \cup [value : NumberInputs, separator : {<<" ">>, <<"'">>}])

Call_formatNumber ==
    /\ pc = "call"
    /\ fn = "formatNumber"
    /\ result' = formatNumber(args.value, OptionOr(args, "separator", <<",">>))
    /\ pc' = "done"
    /\ UNCHANGED <<fn, args>>

NextNumber == Call_formatNumber

SpecNumber == InitNumber /\ [][NextNumber]_vars

RECURSIVE GroupThousands(_, _)
\* The digits with the separator between groups of three counted from the
\* right.
GroupThousands(digits, separator) ==
    IF Len(digits) <= 3
    THEN digits
    ELSE GroupThousands(SubSeq(digits, 1, Len(digits) - 3), separator)
             \o separator \o SubSeq(digits, Len(digits) - 2, Len(digits))

\* C5: formatNumber inserts the separator only in the integer part of the
\* number's decimal string, between groups of three digits counted leftwards
\* from the decimal point; the sign and every digit after the decimal point
\* are passed through with no separator inserted.
C5_IntegerPartOnly ==
    Done("formatNumber") =>
        LET separator == OptionOr(args, "separator", <<",">>)
        IN  result =
                (IF args.value.neg THEN <<"-">> ELSE <<>>)
                    \o GroupThousands(args.value.int, separator)
                    \o (IF args.value.frac = <<>>
                        THEN <<>>
                        ELSE <<".">> \o args.value.frac)

(***************************************************************************)
(* mask                                                                    *)
(***************************************************************************)

MaxMaskLen == 5

MaxVisible == 3

MaskTexts ==
    StringsUpTo({"a", "b"}, MaxMaskLen)
        \cup {Card1234567890123456,
              <<"1", "2", "3", "4", "5", "6", "7", "8", "9", "0">>}

mask(text, visibleStart, visibleEnd, maskChar) ==
    IF Len(text) <= visibleStart + visibleEnd
    THEN text
    ELSE LET start  == Slice(text, 0, visibleStart)
             end    == SliceFrom(text, -visibleEnd)
             masked == Repeat(maskChar, Len(text) - visibleStart - visibleEnd)
         IN  start \o masked \o end

InitMask ==
    Calling("mask",
            [text : MaskTexts]
                \cup [text : MaskTexts, visibleStart : 0..MaxVisible,
                      visibleEnd : 0..MaxVisible, maskChar : {<<"*">>, <<"X">>}])

Call_mask ==
    /\ pc = "call"
    /\ fn = "mask"
    /\ result' = mask(args.text, OptionOr(args, "visibleStart", 4),
                      OptionOr(args, "visibleEnd", 4),
                      OptionOr(args, "maskChar", <<"*">>))
    /\ pc' = "done"
    /\ UNCHANGED <<fn, args>>

NextMask == Call_mask

SpecMask == InitMask /\ [][NextMask]_vars

\* C6: for every text and all non-negative visibleStart and visibleEnd
\* (0 included) with text.length > visibleStart + visibleEnd, mask returns the
\* first visibleStart characters, then text.length - visibleStart - visibleEnd
\* copies of the mask character, then the last visibleEnd characters; when
\* text.length <= visibleStart + visibleEnd it returns text unchanged.
C6_MaskMiddle ==
    Done("mask") =>
        LET text   == args.text
            vstart == OptionOr(args, "visibleStart", 4)
            vend   == OptionOr(args, "visibleEnd", 4)
            char   == OptionOr(args, "maskChar", <<"*">>)
            copies == [i \in 1..(Len(text) - vstart - vend) |-> char[1]]
        IN  IF Len(text) > vstart + vend
            THEN result = SubSeq(text, 1, vstart) \o copies
                              \o SubSeq(text, Len(text) - vend + 1, Len(text))
            ELSE result = text

(***************************************************************************)
(* truncate                                                                *)
(***************************************************************************)

MaxTruncateLen == 5

MaxSuffixLen == 3

TruncateTexts ==
    StringsUpTo({"a", "b"}, MaxTruncateLen)
        \cup {<<"H", "e", "l", "l", "o", " ", "W", "o", "r", "l", "d">>}

TruncateSuffixes == {Repeat(<<".">>, n) : n \in 0..MaxSuffixLen}

\* A slip: the suffix is added to maxLength characters of the text.
truncate_noRoomForSuffix(text, maxLength, suffix) ==
    IF Len(text) <= maxLength
    THEN text
    ELSE Slice(text, 0, maxLength) \o suffix

truncate(text, maxLength, suffix) ==
    IF Len(text) <= maxLength
    THEN text
    ELSE Slice(text, 0, maxLength - Len(suffix)) \o suffix

InitTruncate ==
    Calling("truncate",
            [text : TruncateTexts, maxLength : 0..(MaxTruncateLen + 3)]
                \cup [text : TruncateTexts, maxLength : 0..(MaxTruncateLen + 3),
                      suffix : TruncateSuffixes])

Call_truncate ==
    /\ pc = "call"
    /\ fn = "truncate"
    /\ result' = truncate(args.text, args.maxLength,
                          OptionOr(args, "suffix", <<".", ".", ".">>))
    /\ pc' = "done"
    /\ UNCHANGED <<fn, args>>

NextTruncate == Call_truncate

SpecTruncate == InitTruncate /\ [][NextTruncate]_vars

\* The first n characters of text; none when n <= 0.
FirstChars(text, n) == [i \in 1..Min(Max(n, 0), Len(text)) |-> text[i]]

\* C7 as stated: truncate returns text unchanged when text.length <=
\* maxLength; otherwise it returns the first (maxLength - suffix.length)
\* characters of text followed by the suffix, so that the result has exactly
\* maxLength characters, for every maxLength >= 0 and every suffix, suffixes
\* longer than maxLength included.
C7_ExactlyMaxLength ==
    Done("truncate") =>
        LET suffix == OptionOr(args, "suffix", <<".", ".", ".">>)
        IN  IF Len(args.text) <= args.maxLength
            THEN result = args.text
            ELSE /\ result = FirstChars(args.text, args.maxLength - Len(suffix))
                                 \o suffix
                 /\ Len(result) = args.maxLength

\* C7 as amended: truncate returns text unchanged when text.length <=
\* maxLength; otherwise, when suffix.length <= maxLength, it returns the first
\* (maxLength - suffix.length) characters of text followed by the suffix, a
\* result of exactly maxLength characters; and when suffix.length > maxLength
\* it returns text without its last (suffix.length - maxLength) characters
\* (nothing of text when it has no more than that many) followed by the
\* suffix, a result of more than maxLength characters.
C7_MaxLengthWhenSuffixFits ==
    Done("truncate") =>
        LET suffix == OptionOr(args, "suffix", <<".", ".", ".">>)
            over   == Len(suffix) - args.maxLength
        IN  IF Len(args.text) <= args.maxLength
            THEN result = args.text
            ELSE IF over <= 0
            THEN /\ result = FirstChars(args.text, args.maxLength - Len(suffix))
                                 \o suffix
                 /\ Len(result) = args.maxLength
            ELSE /\ result = FirstChars(args.text, Len(args.text) - over) \o suffix
                 /\ Len(result) > args.maxLength

\* A text is cut to make room for a suffix that fits in maxLength.
C7_Witness ==
    /\ Done("truncate")
    /\ "suffix" \in DOMAIN args
    /\ Len(args.text) > args.maxLength
    /\ 0 < Len(args.suffix)
    /\ Len(args.suffix) < args.maxLength
    /\ Len(result) = args.maxLength

(***************************************************************************)
(* escapeHtml and unescapeHtml                                             *)
(***************************************************************************)

MaxHtmlLen == 4

HtmlAlphabet == {"&", "<", ">", "\"", "'", "a", "l", "t", ";"}

AmpAmpAmp == <<"&", "a", "m", "p", ";", "a", "m", "p", ";">>

HtmlTexts ==
    StringsUpTo(HtmlAlphabet, MaxHtmlLen)
        \cup {AmpAmpAmp, <<"&", "l", "t", ";", "<">>,
              <<"<", "d", "i", "v", ">", "H", "e", "l", "l", "o", "<", "/", "d",
                "i", "v", ">">>,
              <<"&", "#", "0", "3", "9", ";", "&", "q", "u", "o", "t", ";">>}

\* The entity table, each reserved character with its entity.
EntityTable ==
    << [char |-> "&",  entity |-> <<"&", "a", "m", "p", ";">>],
       [char |-> "<",  entity |-> <<"&", "l", "t", ";">>],
       [char |-> ">",  entity |-> <<"&", "g", "t", ";">>],
       [char |-> "\"", entity |-> <<"&", "q", "u", "o", "t", ";">>],
       [char |-> "'",  entity |-> <<"&", "#", "0", "3", "9", ";">>] >>

\* map[char] of escapeHtml for a character of the class [&<>"'].
EntityOf(c) ==
    EntityTable[CHOOSE i \in DOMAIN EntityTable : EntityTable[i].char = c].entity

RECURSIVE escapeHtml(_)
\* text.replace(/[&<>"']/g, (char) => map[char]).
escapeHtml(text) ==
    IF text = <<>>
    THEN <<>>
    ELSE (IF \E i \in DOMAIN EntityTable : EntityTable[i].char = Head(text)
          THEN EntityOf(Head(text))
          ELSE <<Head(text)>>) \o escapeHtml(Tail(text))

\* Whether pattern is what text holds from its first character on.
StartsWith(text, pattern) ==
    Len(pattern) <= Len(text) /\ SubSeq(text, 1, Len(pattern)) = pattern

RECURSIVE ReplaceAll(_, _, _)
\* text.replace(/pattern/g, replacement) for a literal pattern.
ReplaceAll(text, pattern, replacement) ==
    IF text = <<>>
    THEN <<>>
    ELSE IF StartsWith(text, pattern)
    THEN replacement
             \o ReplaceAll(SubSeq(text, Len(pattern) + 1, Len(text)), pattern,
                           replacement)
    ELSE <<Head(text)>> \o ReplaceAll(Tail(text), pattern, replacement)

\* A slip: one replacement pass per entity, &amp; first, so that the text a
\* pass produces is read again by the next one.
unescapeHtml_passPerEntity(text) ==
    LET p1 == ReplaceAll(text, EntityTable[1].entity, <<EntityTable[1].char>>)
        p2 == ReplaceAll(p1, EntityTable[2].entity, <<EntityTable[2].char>>)
        p3 == ReplaceAll(p2, EntityTable[3].entity, <<EntityTable[3].char>>)
        p4 == ReplaceAll(p3, EntityTable[4].entity, <<EntityTable[4].char>>)
    IN  ReplaceAll(p4, EntityTable[5].entity, <<EntityTable[5].char>>)

RECURSIVE unescapeHtml(_)
\* text.replace(/&amp;|&lt;|&gt;|&quot;|&#039;/g, (entity) => map[entity]):
\* one scan from the left; where an entity starts, its character replaces it
\* and the scan goes on after it.
unescapeHtml(text) ==
    IF text = <<>>
    THEN <<>>
    ELSE LET found == {i \in DOMAIN EntityTable :
                          StartsWith(text, EntityTable[i].entity)}
         IN  IF found = {}
             THEN <<Head(text)>> \o unescapeHtml(Tail(text))
             ELSE LET e == EntityTable[CHOOSE i \in found : TRUE]
                  IN  <<e.char>>
                          \o unescapeHtml(SubSeq(text, Len(e.entity) + 1, Len(text)))

InitHtml == Calling("escapeHtml", [text : HtmlTexts])

Call_escapeHtml ==
    /\ pc = "call"
    /\ fn = "escapeHtml"
    /\ result' = escapeHtml(args.text)
    /\ pc' = "done"
    /\ UNCHANGED <<fn, args>>

\* The caller passes what escapeHtml returned to unescapeHtml.
Call_unescapeHtml ==
    /\ pc = "done"
    /\ fn = "escapeHtml"
    /\ fn' = "unescapeHtml"
    /\ result' = unescapeHtml(result)
    /\ UNCHANGED <<args, pc>>

NextHtml == Call_escapeHtml \/ Call_unescapeHtml

SpecHtml == InitHtml /\ [][NextHtml]_vars

\* Whether pattern occurs in text.
Contains(text, pattern) ==
    \E i \in 0..(Len(text) - Len(pattern)) :
        SubSeq(text, i + 1, i + Len(pattern)) = pattern

\* C8: for every string s over the five reserved characters & < > " ' and
\* ordinary characters, unescapeHtml(escapeHtml(s)) = s, also when s itself
\* already holds entity-like text such as '&lt;' or '&amp;amp;'.
C8_RoundTrip ==
    Done("unescapeHtml") => result = args.text

\* The round trip of a text that holds the entity-like text '&lt;' next to
\* a reserved character has run.
C8_Witness ==
    /\ Done("unescapeHtml")
    /\ Contains(args.text, <<"&", "l", "t", ";">>)
    /\ Contains(args.text, <<"<">>)

(***************************************************************************)
(* toSnakeCase and toKebabCase                                             *)
(***************************************************************************)

MaxCaseLen == 5

CaseAlphabet == {"H", "W", "e", "o", " "}

HelloWorld == <<"H", "e", "l", "l", "o", " ", "W", "o", "r", "l", "d">>

helloWorld == <<"h", "e", "l", "l", "o", "W", "o", "r", "l", "d">>

CaseTexts == StringsUpTo(CaseAlphabet, MaxCaseLen) \cup {HelloWorld, helloWorld}

RECURSIVE PrefixUppercase(_, _)
\* text.replace(/([A-Z])/g, separator + '$1').
PrefixUppercase(text, separator) ==
    IF text = <<>>
    THEN <<>>
    ELSE (IF IsUpper(Head(text)) THEN <<separator, Head(text)>> ELSE <<Head(text)>>)
             \o PrefixUppercase(Tail(text), separator)

RECURSIVE ReplaceSpaceRuns(_, _)
\* text.replace(/\s+/g, separator): each maximal run of whitespace becomes
\* one separator.
ReplaceSpaceRuns(text, separator) ==
    IF text = <<>>
    THEN <<>>
    ELSE IF IsSpace(Head(text))
    THEN IF Len(text) > 1 /\ IsSpace(text[2])
         THEN ReplaceSpaceRuns(Tail(text), separator)
         ELSE <<separator>> \o ReplaceSpaceRuns(Tail(text), separator)
    ELSE <<Head(text)>> \o ReplaceSpaceRuns(Tail(text), separator)

\* text.replace(/^_/, '') and text.replace(/^-/, '').
StripLeading(text, separator) ==
    IF text # <<>> /\ Head(text) = separator THEN Tail(text) ELSE text

toSnakeCase(text) ==
    StripLeading(ReplaceSpaceRuns(toLowerCase(PrefixUppercase(text, "_")), "_"), "_")

toKebabCase(text) ==
    StripLeading(ReplaceSpaceRuns(toLowerCase(PrefixUppercase(text, "-")), "-"), "-")

InitCase ==
    \/ Calling("toSnakeCase", [text : CaseTexts])
    \/ Calling("toKebabCase", [text : CaseTexts])

Call_toSnakeCase ==
    /\ pc = "call"
    /\ fn = "toSnakeCase"
    /\ result' = toSnakeCase(args.text)
    /\ pc' = "done"
    /\ UNCHANGED <<fn, args>>

Call_toKebabCase ==
    /\ pc = "call"
    /\ fn = "toKebabCase"
    /\ result' = toKebabCase(args.text)
    /\ pc' = "done"
    /\ UNCHANGED <<fn, args>>

NextCase == Call_toSnakeCase \/ Call_toKebabCase

SpecCase == InitCase /\ [][NextCase]_vars

\* Capitalised words separated by a single space: the text starts with an
\* uppercase letter, every space is followed by an uppercase letter, and
\* uppercase letters stand nowhere else.
IsCapitalisedWords(text) ==
    /\ text # <<>>
    /\ \A i \in 1..Len(text) :
           /\ IsUpper(text[i]) \/ IsLower(text[i]) \/ text[i] = " "
           /\ IsUpper(text[i]) <=> (i = 1 \/ text[i - 1] = " ")
    /\ text[Len(text)] # " "

\* The camelCase form: letters only, the first one lowercase.
IsCamelCase(text) ==
    /\ text # <<>>
    /\ IsLower(text[1])
    /\ \A i \in 1..Len(text) : IsUpper(text[i]) \/ IsLower(text[i])

RECURSIVE JoinedWords(_, _, _)
\* The lowercased words of text joined by one separator; a word ends at a
\* space or before an uppercase letter.  i is the index of the next
\* character.
JoinedWords(text, separator, i) ==
    IF i > Len(text)
    THEN <<>>
    ELSE (IF text[i] = " "
          THEN <<separator>>
          ELSE IF IsUpper(text[i]) /\ i > 1 /\ text[i - 1] # " "
          THEN <<separator, LowerOf(text[i])>>
          ELSE <<LowerOf(text[i])>>) \o JoinedWords(text, separator, i + 1)

\* C9: for a text made of capitalised words separated by a single space
\* ('Hello World'), toSnakeCase returns the lowercased words joined by exactly
\* one underscore ('hello_world') and toKebabCase returns them joined by
\* exactly one hyphen ('hello-world'); the same outputs are produced for the
\* camelCase form ('helloWorld').
C9_OneSeparator ==
    /\ (Done("toSnakeCase")
            /\ (IsCapitalisedWords(args.text) \/ IsCamelCase(args.text)))
           => result = JoinedWords(args.text, "_", 1)
    /\ (Done("toKebabCase")
            /\ (IsCapitalisedWords(args.text) \/ IsCamelCase(args.text)))
           => result = JoinedWords(args.text, "-", 1)

(***************************************************************************)
(* formatCreditCard                                                        *)
(***************************************************************************)

MaxFormatCardLen == 8

FormatCardInputs ==
    StringsUpTo({"1", "2", " "}, MaxFormatCardLen) \cup {Card1234567890123456}

RECURSIVE AppendToFours(_, _)
\* cleaned.replace(/(\d{4})/g, `$1${separator}`): a scan from the left; where
\* four digits follow they are kept with the separator after them and the
\* scan goes on behind them.
AppendToFours(cleaned, separator) ==
    IF cleaned = <<>>
    THEN <<>>
    ELSE IF Len(cleaned) >= 4 /\ \A i \in 1..4 : IsDigit(cleaned[i])
    THEN SubSeq(cleaned, 1, 4) \o separator
             \o AppendToFours(SubSeq(cleaned, 5, Len(cleaned)), separator)
    ELSE <<Head(cleaned)>> \o AppendToFours(Tail(cleaned), separator)

RECURSIVE trim(_)
\* String.prototype.trim.
trim(text) ==
    IF text # <<>> /\ IsSpace(Head(text))
    THEN trim(Tail(text))
    ELSE IF text # <<>> /\ IsSpace(text[Len(text)])
    THEN trim(SubSeq(text, 1, Len(text) - 1))
    ELSE text

formatCreditCard(cardNumber, separator) ==
    LET cleaned == StripSpaces(cardNumber)
    IN  trim(AppendToFours(cleaned, separator))

InitFormatCard ==
    Calling("formatCreditCard",
            [cardNumber : FormatCardInputs]
                \cup [cardNumber : FormatCardInputs,
                      separator : {<<" ">>, <<"-">>}])

Call_formatCreditCard ==
    /\ pc = "call"
    /\ fn = "formatCreditCard"
    /\ result' = formatCreditCard(args.cardNumber,
                                  OptionOr(args, "separator", <<" ">>))
    /\ pc' = "done"
    /\ UNCHANGED <<fn, args>>

NextFormatCard == Call_formatCreditCard

SpecFormatCard == InitFormatCard /\ [][NextFormatCard]_vars

RECURSIVE JoinFours(_, _)
\* The digits in groups of four joined by the separator.
JoinFours(digits, separator) ==
    IF Len(digits) <= 4
    THEN digits
    ELSE SubSeq(digits, 1, 4) \o separator
             \o JoinFours(SubSeq(digits, 5, Len(digits)), separator)

\* C10: formatCreditCard removes whitespace and returns the digits in groups
\* of four joined by the separator, the separator standing only between
\* groups and never after the last group, for every separator
\* (formatCreditCard('1234567890123456', '-') = '1234-5678-9012-3456') and
\* every digit count, multiples of four included.
C10_SeparatorBetweenGroups ==
    Done("formatCreditCard") =>
        result = JoinFours(StripSpaces(args.cardNumber),
                           OptionOr(args, "separator", <<" ">>))

(***************************************************************************)
(* removeAccents, slugify                                                  *)
(***************************************************************************)

MaxSlugLen == 4

\* Characters outside ASCII are named by their code point: U+00E9 is the
\* precomposed e with acute accent, U+0301 the combining acute accent,
\* U+00F8 the o with stroke (which has no decomposition).
EAcute == "U+00E9"

CombiningAcute == "U+0301"

OStroke == "U+00F8"

SlugAlphabet == {"a", "B", "1", EAcute, OStroke, "&", " ", "_", "-"}

CafeAndBar == <<"C", "a", "f", EAcute, " ", "&", " ", "B", "a", "r">>

HelloWorldBang == <<"H", "e", "l", "l", "o", " ", "W", "o", "r", "l", "d", "!">>

SlugTexts == StringsUpTo(SlugAlphabet, MaxSlugLen) \cup {CafeAndBar, HelloWorldBang}

\* The canonical decomposition of one character.
DecomposeChar(c) == IF c = EAcute THEN <<"e", CombiningAcute>> ELSE <<c>>

RECURSIVE normalizeNFD(_)
\* String.prototype.normalize('NFD').
normalizeNFD(text) ==
    IF text = <<>>
    THEN <<>>
    ELSE DecomposeChar(Head(text)) \o normalizeNFD(Tail(text))

\* The regular expression class [\u0300-\u036f] (the member the inputs use).
IsCombiningMark(c) == c = CombiningAcute

removeAccents(text) ==
    SelectSeq(normalizeNFD(text), LAMBDA c : ~IsCombiningMark(c))

\* text.replace(/[^\w\s-]/g, '').
RemoveNonSlugChars(text) ==
    SelectSeq(text, LAMBDA c : IsWord(c) \/ IsSpace(c) \/ c = "-")

\* The regular expression class [\s_-].
IsSlugSeparator(c) == IsSpace(c) \/ c = "_" \/ c = "-"

RECURSIVE CollapseSeparators(_)
\* text.replace(/[\s_-]+/g, '-'): each maximal run of whitespace,
\* underscores and hyphens becomes one hyphen.
CollapseSeparators(text) ==
    IF text = <<>>
    THEN <<>>
    ELSE IF IsSlugSeparator(Head(text))
    THEN IF Len(text) > 1 /\ IsSlugSeparator(text[2])
         THEN CollapseSeparators(Tail(text))
         ELSE <<"-">> \o CollapseSeparators(Tail(text))
    ELSE <<Head(text)>> \o CollapseSeparators(Tail(text))

RECURSIVE StripEdgeHyphens(_)
\* text.replace(/^-+|-+$/g, '').
StripEdgeHyphens(text) ==
    IF text # <<>> /\ Head(text) = "-"
    THEN StripEdgeHyphens(Tail(text))
    ELSE IF text # <<>> /\ text[Len(text)] = "-"
    THEN StripEdgeHyphens(SubSeq(text, 1, Len(text) - 1))
    ELSE text

slugify_keepEdgeHyphens(text) ==
    CollapseSeparators(RemoveNonSlugChars(trim(toLowerCase(removeAccents(text)))))

slugify(text) ==
    StripEdgeHyphens(
        CollapseSeparators(
            RemoveNonSlugChars(trim(toLowerCase(removeAccents(text))))))

InitSlugify == Calling("slugify", [text : SlugTexts])

Call_slugify ==
    /\ pc = "call"
    /\ fn = "slugify"
    /\ result' = slugify(args.text)
    /\ pc' = "done"
    /\ UNCHANGED <<fn, args>>

NextSlugify == Call_slugify

SpecSlugify == InitSlugify /\ [][NextSlugify]_vars

\* Lowercase ASCII letters, digits and hyphens only, no two hyphens in a
\* row, no hyphen first or last.
IsSlug(text) ==
    /\ \A i \in 1..Len(text) : IsLower(text[i]) \/ IsDigit(text[i]) \/ text[i] = "-"
    /\ \A i \in 1..(Len(text) - 1) : ~(text[i] = "-" /\ text[i + 1] = "-")
    /\ text # <<>> => text[1] # "-" /\ text[Len(text)] # "-"

\* C11: the result of slugify consists only of lowercase ASCII letters,
\* digits and hyphens, has no two consecutive hyphens and neither starts nor
\* ends with a hyphen; slugify of the result is the result again, and
\* slugify('Cafe(U+00E9) & Bar') = 'cafe-bar'.
C11_SlugShape ==
    Done("slugify") =>
        /\ IsSlug(result)
        /\ slugify(result) = result
        /\ args.text = CafeAndBar => result = <<"c", "a", "f", "e", "-", "b", "a", "r">>

\* An input with an accented letter and a symbol gives a slug of two words
\* joined by a hyphen.
C11_Witness ==
    /\ Done("slugify")
    /\ \E i, j \in 1..Len(args.text) : args.text[i] = EAcute /\ args.text[j] = "&"
    /\ \E i \in 1..Len(result) : result[i] = "-"

(***************************************************************************)
(* Arrays                                                                  *)
(*                                                                         *)
(* A JavaScript array is a sequence; Array.prototype.slice has the index   *)
(* rules of String.prototype.slice (Slice above).                          *)
(***************************************************************************)

MaxArrayLen == 4

ArrayElems == 1..3

Arrays == StringsUpTo(ArrayElems, MaxArrayLen)

\* The array [1, 2, 3, 4, 5] of the documentation examples.
OneToFive == <<1, 2, 3, 4, 5>>

(***************************************************************************)
(* paginate                                                                *)
(***************************************************************************)

MaxPage == 4

MaxPageSize == 3

\* Math.ceil(a / b) for a >= 0 and b >= 1.
CeilDiv(a, b) == (a + b - 1) \div b

\* A slip: the pages are counted from 0.
paginate_fromPageZero(array, page, pageSize) ==
    LET totalItems == Len(array)
        totalPages == CeilDiv(totalItems, pageSize)
        startIndex == page * pageSize
        endIndex   == startIndex + pageSize
        data       == Slice(array, startIndex, endIndex)
    IN  [data |-> data, page |-> page, pageSize |-> pageSize,
         totalPages |-> totalPages, totalItems |-> totalItems]

paginate(array, page, pageSize) ==
    LET totalItems == Len(array)
        totalPages == CeilDiv(totalItems, pageSize)
        startIndex == (page - 1) * pageSize
        endIndex   == startIndex + pageSize
        data       == Slice(array, startIndex, endIndex)
    IN  [data |-> data, page |-> page, pageSize |-> pageSize,
         totalPages |-> totalPages, totalItems |-> totalItems]

InitPaginate ==
    Calling("paginate",
            [array : Arrays \cup {OneToFive}, page : (-MaxPage)..MaxPage,
             pageSize : 1..MaxPageSize])

Call_paginate ==
    /\ pc = "call"
    /\ fn = "paginate"
    /\ result' = paginate(args.array, args.page, args.pageSize)
    /\ pc' = "done"
    /\ UNCHANGED <<fn, args>>

NextPaginate == Call_paginate

SpecPaginate == InitPaginate /\ [][NextPaginate]_vars

\* The elements of array at the 0-based indices from..(to - 1) that exist.
ElementsAt(array, from, to) ==
    LET indices == {i \in 0..(Len(array) - 1) : from <= i /\ i < to}
    IN  [j \in 1..Cardinality(indices) |-> array[from + j]]

\* C12: with pageSize >= 1, paginate returns totalItems = array.length,
\* totalPages = ceil(totalItems / pageSize) and data = the elements at the
\* indices [(page-1)*pageSize, page*pageSize) of array; for every page
\* outside 1..totalPages, page 0 and negative pages included, data is empty.
C12_PageWindow ==
    Done("paginate") =>
        /\ result.totalItems = Len(args.array)
        /\ result.totalPages * args.pageSize >= Len(args.array)
        /\ (result.totalPages - 1) * args.pageSize < Len(args.array)
               \/ (result.totalPages = 0 /\ args.array = <<>>)
        /\ args.page >= 1 =>
               result.data = ElementsAt(args.array, (args.page - 1) * args.pageSize,
                                        args.page * args.pageSize)
        /\ args.page \notin 1..result.totalPages => result.data = <<>>

(***************************************************************************)
(* rotate                                                                  *)
(***************************************************************************)

MaxPositions == 6

\* The remainder operator a % b for b > 0: the result has the sign of a.
Remainder(a, b) == IF a >= 0 THEN a % b ELSE 0 - ((0 - a) % b)

rotate_sliceToOffset(array, positions) ==
    LET len == Len(array)
    IN  IF len = 0
        THEN SliceFrom(array, 0) \o Slice(array, 0, 0)
        ELSE LET offset == Remainder(Remainder(positions, len) + len, len)
             IN  SliceFrom(array, 0 - offset) \o Slice(array, 0, offset)

\* With len = 0 the offset is NaN (positions % 0), and slice reads a NaN
\* index as 0.
rotate(array, positions) ==
    LET len == Len(array)
    IN  IF len = 0
        THEN SliceFrom(array, 0) \o Slice(array, 0, 0)
        ELSE LET offset == Remainder(Remainder(positions, len) + len, len)
             IN  SliceFrom(array, 0 - offset) \o Slice(array, 0, 0 - offset)

InitRotate ==
    Calling("rotate", [array : Arrays, positions : (-MaxPositions)..MaxPositions])

Call_rotate ==
    /\ pc = "call"
    /\ fn = "rotate"
    /\ result' = rotate(args.array, args.positions)
    /\ pc' = "done"
    /\ UNCHANGED <<fn, args>>

\* The caller rotates what rotate returned by the opposite number of
\* positions.
Call_rotateBack ==
    /\ pc = "done"
    /\ fn = "rotate"
    /\ fn' = "rotateBack"
    /\ result' = rotate(result, 0 - args.positions)
    /\ UNCHANGED <<args, pc>>

NextRotate == Call_rotate \/ Call_rotateBack

SpecRotate == InitRotate /\ [][NextRotate]_vars

\* C13: for every array, the empty one included, and every integer n
\* (positive, negative, zero, larger in magnitude than the length),
\* rotate(rotate(arr, n), -n) equals arr, and rotate(arr, arr.length)
\* equals arr.
C13_RotateBack ==
    /\ Done("rotateBack") => result = args.array
    /\ Done("rotate") /\ args.positions = Len(args.array) => result = args.array

\* An array of distinct elements was rotated by more than its length, to a
\* different order, and rotated back.
C13_Witness ==
    /\ Done("rotateBack")
    /\ args.array = <<1, 2, 3>>
    /\ args.positions = -4
    /\ rotate(args.array, args.positions) # args.array

(***************************************************************************)
(* unique, intersection, difference, union                                 *)
(***************************************************************************)

MaxSetArrayLen == 3

SetArrays == StringsUpTo(ArrayElems, MaxSetArrayLen)

RECURSIVE SetInsertAll(_, _)
\* new Set(array), as the sequence of its members in insertion order: each
\* element of array is added, after the members already there, unless it is
\* one of them.
SetInsertAll(members, array) ==
    IF array = <<>>
    THEN members
    ELSE SetInsertAll(IF Head(array) \in Range(members)
                      THEN members
                      ELSE Append(members, Head(array)),
                      Tail(array))

\* [...new Set(array)].
unique(array) == SetInsertAll(<<>>, array)

\* array.filter((item) => keep.has(item)) for the Set keep.
filter(array, keep) == SelectSeq(array, LAMBDA item : item \in keep)

intersection_keepDuplicates(array1, array2) ==
    LET set2 == Range(array2)
    IN  filter(array1, set2)

intersection(array1, array2) ==
    LET set2 == Range(array2)
    IN  unique(filter(array1, set2))

difference(array1, array2) ==
    LET set2 == Range(array2)
    IN  SelectSeq(array1, LAMBDA item : ~(item \in set2))

union(array1, array2) == unique(array1 \o array2)

SetOpInputs == [array1 : SetArrays, array2 : SetArrays]

InitSetOps ==
    \/ Calling("intersection", SetOpInputs)
    \/ Calling("difference", SetOpInputs)
    \/ Calling("union", SetOpInputs)

Call_intersection ==
    /\ pc = "call"
    /\ fn = "intersection"
    /\ result' = intersection(args.array1, args.array2)
    /\ pc' = "done"
    /\ UNCHANGED <<fn, args>>

Call_difference ==
    /\ pc = "call"
    /\ fn = "difference"
    /\ result' = difference(args.array1, args.array2)
    /\ pc' = "done"
    /\ UNCHANGED <<fn, args>>

Call_union ==
    /\ pc = "call"
    /\ fn = "union"
    /\ result' = union(args.array1, args.array2)
    /\ pc' = "done"
    /\ UNCHANGED <<fn, args>>

NextSetOps == Call_intersection \/ Call_difference \/ Call_union

SpecSetOps == InitSetOps /\ [][NextSetOps]_vars

\* The 1-based index of the first occurrence of item in array.
FirstIndexOf(array, item) ==
    CHOOSE i \in 1..Len(array) :
        array[i] = item /\ \A j \in 1..(i - 1) : array[j] # item

\* out holds exactly the members of wanted, each once, in the order of their
\* first occurrence in source.
IsFirstSeenOrder(out, source, wanted) ==
    /\ Range(out) = wanted
    /\ \A i, j \in 1..Len(out) :
           i < j => FirstIndexOf(source, out[i]) < FirstIndexOf(source, out[j])

\* out holds, in order, every occurrence in source of the members of wanted.
IsEveryOccurrence(out, source, wanted) ==
    LET kept == {i \in 1..Len(source) : source[i] \in wanted}
    IN  /\ Len(out) = Cardinality(kept)
        /\ \A i \in kept :
               out[Cardinality({j \in kept : j <= i})] = source[i]

\* C14: intersection and union contain no duplicate and keep first-seen
\* order, whereas difference contains, in order, every occurrence
\* (duplicates included) of each element of array1 that is not in array2.
C14_SetOps ==
    /\ Done("intersection") =>
           IsFirstSeenOrder(result, args.array1,
                            Range(args.array1) \cap Range(args.array2))
    /\ Done("union") =>
           IsFirstSeenOrder(result, args.array1 \o args.array2,
                            Range(args.array1) \cup Range(args.array2))
    /\ Done("difference") =>
           IsEveryOccurrence(result, args.array1,
                             Range(args.array1) \ Range(args.array2))

\* intersection was called on a first array that holds a common element
\* twice and in another order than the second array.
C14_Witness ==
    /\ Done("intersection")
    /\ args.array1 = <<2, 1, 2>>
    /\ args.array2 = <<1, 2>>
    /\ result = <<2, 1>>

(***************************************************************************)
(* sum, average                                                            *)
(*                                                                         *)
(* A number that a division produces is the fraction num / den in lowest   *)
(* terms with den > 0; NaN, the value of 0 / 0, is the fraction 0 / 0.     *)
(***************************************************************************)

NumberElems == (-1)..2

NumberArrays == StringsUpTo(NumberElems, MaxArrayLen) \cup {<<1, 2, 3, 4>>}

Abs(n) == IF n < 0 THEN 0 - n ELSE n

RECURSIVE Gcd(_, _)
Gcd(a, b) == IF b = 0 THEN a ELSE Gcd(b, a % b)

\* The literal 0.
Zero == [num |-> 0, den |-> 1]

NaN == [num |-> 0, den |-> 0]

\* a / b for integers a and b >= 0 (b = 0 only with a = 0).
Divide(a, b) ==
    IF b = 0
    THEN NaN
    ELSE LET g == Gcd(Abs(a), b)
         IN  [num |-> a \div g, den |-> b \div g]

RECURSIVE reduce(_, _)
\* array.reduce((total, num) => total + num, total).
reduce(array, total) ==
    IF array = <<>> THEN total ELSE reduce(Tail(array), total + Head(array))

sum(array) == reduce(array, 0)

average_noEmptyCase(array) == Divide(sum(array), Len(array))

average(array) ==
    IF Len(array) = 0 THEN Zero ELSE Divide(sum(array), Len(array))

InitAverage == Calling("average", [array : NumberArrays])

Call_average ==
    /\ pc = "call"
    /\ fn = "average"
    /\ result' = average(args.array)
    /\ pc' = "done"
    /\ UNCHANGED <<fn, args>>

NextAverage == Call_average

SpecAverage == InitAverage /\ [][NextAverage]_vars

RECURSIVE SumOfIndices(_, _)
\* The sum of the elements of array at the indices of the set.
SumOfIndices(array, indices) ==
    IF indices = {}
    THEN 0
    ELSE LET i == CHOOSE i \in indices : TRUE
         IN  array[i] + SumOfIndices(array, indices \ {i})

\* C15: average returns 0 for the empty array (not NaN) and the sum of the
\* elements divided by their number otherwise (average([1, 2, 3, 4]) = 2.5).
C15_Average ==
    Done("average") =>
        /\ result.den > 0
        /\ args.array = <<>> => result.num = 0
        /\ args.array # <<>> =>
               result.num * Len(args.array)
                   = SumOfIndices(args.array, DOMAIN args.array) * result.den
        /\ args.array = <<1, 2, 3, 4>> => result = [num |-> 5, den |-> 2]

\* The average of the empty array was taken.
C15_Witness ==
    /\ Done("average")
    /\ args.array = <<>>
    /\ result = Zero

(***************************************************************************)
(* chunk                                                                   *)
(***************************************************************************)

MaxChunkSize == 3

RECURSIVE ChunkLoop(_, _, _, _)
\* The for loop of chunk (size >= 1): i is the loop variable, chunks the
\* array built so far, and the value is chunks when the loop ends.
ChunkLoop(array, size, i, chunks) ==
    IF i < Len(array)
    THEN ChunkLoop(array, size, i + size, Append(chunks, Slice(array, i, i + size)))
    ELSE chunks

chunk_dropPartial(array, size) ==
    ChunkLoop(Slice(array, 0, Len(array) - (Len(array) % size)), size, 0, <<>>)

chunk(array, size) == ChunkLoop(array, size, 0, <<>>)

InitChunk == Calling("chunk", [array : Arrays \cup {OneToFive}, size : 1..MaxChunkSize])

Call_chunk ==
    /\ pc = "call"
    /\ fn = "chunk"
    /\ result' = chunk(args.array, args.size)
    /\ pc' = "done"
    /\ UNCHANGED <<fn, args>>

NextChunk == Call_chunk

SpecChunk == InitChunk /\ [][NextChunk]_vars

RECURSIVE Concatenation(_)
\* The arrays of a list, one after the other.
Concatenation(arrays) ==
    IF arrays = <<>> THEN <<>> ELSE Head(arrays) \o Concatenation(Tail(arrays))

\* C16: for every array and every size >= 1, chunk returns
\* ceil(length / size) windows whose concatenation is the array, every window
\* but possibly the last having exactly size elements and the last between 1
\* and size; the empty array yields no window.
C16_Windows ==
    Done("chunk") =>
        /\ Len(result) * args.size >= Len(args.array)
        /\ Len(result) * args.size < Len(args.array) + args.size
        /\ Concatenation(result) = args.array
        /\ \A w \in 1..(Len(result) - 1) : Len(result[w]) = args.size
        /\ result # <<>> =>
               Len(result[Len(result)]) \in 1..args.size
        /\ args.array = <<>> => result = <<>>

\* An array was cut into full windows and a shorter last one.
C16_Witness ==
    /\ Done("chunk")
    /\ args.array = OneToFive
    /\ args.size = 2
    /\ result = <<<<1, 2>>, <<3, 4>>, <<5>>>>

(***************************************************************************)
(* flatten                                                                 *)
(*                                                                         *)
(* An element of a nested array is either a value that is no array,        *)
(* [leaf |-> v], or an array, [items |-> its elements].                     *)
(***************************************************************************)

MaxFlattenNodes == 5

MaxDepth == 3

LeafValues == 1..2

Leaf(v) == [leaf |-> v]

Nested(elements) == [items |-> elements]

\* Array.isArray(item).
IsArray(item) == "items" \in DOMAIN item

RECURSIVE NestedArrays(_)
\* Every array that holds n values and arrays in all, at any nesting.
NestedArrays(n) ==
    IF n = 0
    THEN {<<>>}
    ELSE UNION {
             {<<first>> \o rest :
                  first \in (IF m = 1
                             THEN {Leaf(v) : v \in LeafValues} \cup {Nested(<<>>)}
                             ELSE {Nested(inner) : inner \in NestedArrays(m - 1)}),
                  rest \in NestedArrays(n - m)} : m \in 1..n}

\* The array [1, [2, [1, [2]]]], nested three levels deep.
NestedThreeDeep ==
    <<Leaf(1), Nested(<<Leaf(2), Nested(<<Leaf(1), Nested(<<Leaf(2)>>)>>)>>)>>

FlattenArrays ==
    UNION {NestedArrays(n) : n \in 0..MaxFlattenNodes} \cup {NestedThreeDeep}

RECURSIVE flatten_sameDepth(_, _)
flatten_sameDepth(array, depth) ==
    IF depth = 0
    THEN array
    ELSE LET flat[i \in 0..Len(array)] ==
                 IF i = 0
                 THEN <<>>
                 ELSE flat[i - 1]
                          \o (IF IsArray(array[i])
                              THEN flatten_sameDepth(array[i].items, depth)
                              ELSE <<array[i]>>)
         IN  flat[Len(array)]

RECURSIVE flatten(_, _)
\* flat[i] is the accumulator of the reduce after the first i items;
\* flat.concat(x) appends the elements of x when x is an array and x itself
\* otherwise.
flatten(array, depth) ==
    IF depth = 0
    THEN array
    ELSE LET flat[i \in 0..Len(array)] ==
                 IF i = 0
                 THEN <<>>
                 ELSE flat[i - 1]
                          \o (IF IsArray(array[i])
                              THEN flatten(array[i].items, depth - 1)
                              ELSE <<array[i]>>)
         IN  flat[Len(array)]

InitFlatten ==
    Calling("flatten",
            [array : FlattenArrays]
                \cup [array : FlattenArrays, depth : (-MaxDepth)..MaxDepth])

Call_flatten ==
    /\ pc = "call"
    /\ fn = "flatten"
    /\ result' = flatten(args.array, OptionOr(args, "depth", 1))
    /\ pc' = "done"
    /\ UNCHANGED <<fn, args>>

NextFlatten == Call_flatten

SpecFlatten == InitFlatten /\ [][NextFlatten]_vars

\* The array with every top-level element that is an array replaced by its
\* elements.
SpliceOneLevel(array) ==
    Concatenation([i \in 1..Len(array) |->
                       IF IsArray(array[i]) THEN array[i].items ELSE <<array[i]>>])

RECURSIVE SpliceLevels(_, _)
\* d levels of nesting removed, one level at a time.
SpliceLevels(array, d) ==
    IF d = 0 THEN array ELSE SpliceLevels(SpliceOneLevel(array), d - 1)

\* C17: flatten removes at most depth levels of nesting: depth 0 returns the
\* input unchanged, depth d >= 1 splices every element nested at level <= d
\* into the top level in left-to-right order while the elements nested
\* deeper remain arrays; a negative depth does not return the input
\* unchanged: it leaves no array among the elements, so that an input with a
\* nested array comes back different.
C17_RemovesDepthLevels ==
    Done("flatten") =>
        LET depth == OptionOr(args, "depth", 1)
        IN  /\ depth >= 0 => result = SpliceLevels(args.array, depth)
            /\ depth = 0 => result = args.array
            /\ depth < 0 => \A i \in 1..Len(result) : ~IsArray(result[i])
            /\ depth < 0 /\ (\E i \in 1..Len(args.array) : IsArray(args.array[i])) =>
                   result # args.array

\* An array nested three levels deep was flattened by two levels: the
\* innermost array remains.
C17_Witness ==
    /\ Done("flatten")
    /\ args.array = NestedThreeDeep
    /\ "depth" \in DOMAIN args
    /\ args.depth = 2
    /\ result = <<Leaf(1), Leaf(2), Leaf(1), Nested(<<Leaf(2)>>)>>

(***************************************************************************)
(* Dates                                                                   *)
(*                                                                         *)
(* A time value (milliseconds since the epoch, 1 January 1970 UTC) is the  *)
(* record [days, ms] that stands for days * msPerDay + ms, with            *)
(* 0 <= ms < msPerDay.  A Date holds a time value; its local calendar      *)
(* fields are those of the time value moved by the offset of the local     *)
(* time zone.                                                              *)
(***************************************************************************)

msPerDay == 24 * 60 * 60 * 1000

\* The time value t + delta, for a number of milliseconds delta.
AddMs(t, delta) ==
    LET total == t.ms + delta
    IN  [days |-> t.days + (total \div msPerDay), ms |-> total % msPerDay]

\* The time value t1 - t2.
MinusTime(t1, t2) ==
    LET total == t1.ms - t2.ms
    IN  [days |-> t1.days - t2.days + (total \div msPerDay), ms |-> total % msPerDay]

\* The day number of 1 January of year y.
DayFromYear(y) ==
    365 * (y - 1970) + ((y - 1969) \div 4) - ((y - 1901) \div 100)
        + ((y - 1601) \div 400)

\* The year that day number day falls in.
YearFromDay(day) ==
    LET low  == 1970 + Min(day \div 365, day \div 366) - 1
        high == 1970 + Max(day \div 365, day \div 366) + 1
    IN  CHOOSE y \in low..high :
            DayFromYear(y) <= day /\ day < DayFromYear(y + 1)

isLeapYear(y) == (y % 4 = 0 /\ y % 100 # 0) \/ y % 400 = 0

MonthLengths(y) ==
    <<31, IF isLeapYear(y) THEN 29 ELSE 28, 31, 30, 31, 30, 31, 31, 30, 31, 30, 31>>

RECURSIVE DaysBeforeMonth(_, _)
\* The number of days of year y before its month m (0 = January).
DaysBeforeMonth(y, m) ==
    IF m = 0 THEN 0 ELSE DaysBeforeMonth(y, m - 1) + MonthLengths(y)[m]

\* The month (0 = January) that day number day falls in.
MonthFromDay(day) ==
    LET y      == YearFromDay(day)
        inYear == day - DayFromYear(y)
    IN  CHOOSE m \in 0..11 :
            /\ DaysBeforeMonth(y, m) <= inYear
            /\ inYear < DaysBeforeMonth(y, m) + MonthLengths(y)[m + 1]

\* The day of the month (1 = the first) of day number day.
DateFromDay(day) ==
    LET y == YearFromDay(day)
    IN  day - DayFromYear(y) - DaysBeforeMonth(y, MonthFromDay(day)) + 1

\* The day number of the local calendar day of a Date.
LocalDay(date, zone) == AddMs(date, zone).days

getFullYear(date, zone) == YearFromDay(LocalDay(date, zone))

getMonth(date, zone) == MonthFromDay(LocalDay(date, zone))

getDate(date, zone) == DateFromDay(LocalDay(date, zone))

\* The day number of the day date of month month of year year.
MakeDay(year, month, date) ==
    DayFromYear(year) + DaysBeforeMonth(year, month) + date - 1

\* A year from 0 to 99 given to Date.UTC stands for 1900 + year.
MakeFullYear(year) == IF year \in 0..99 THEN 1900 + year ELSE year

\* Date.UTC(year, month, date).
DateUTC(year, month, date) ==
    [days |-> MakeDay(MakeFullYear(year), month, date), ms |-> 0]

\* Math.floor(t / msPerDay) of a time value (or a difference of two) t.
FloorDays(t) == t.days

(***************************************************************************)
(* diffInDays                                                              *)
(***************************************************************************)

MaxDaySpan == 3

\* The first days of the runs of consecutive days that the dates are drawn
\* from: 15 and 20 January 2024 (the dates of the tests), 27 February 2024
\* (across a leap day), 30 December 2023 (across a new year) and
\* 30 December 99 (across the new year of the year 100).
FirstDays ==
    {MakeDay(2024, 0, 15), MakeDay(2024, 0, 20), MakeDay(2024, 1, 27),
     MakeDay(2023, 11, 30), MakeDay(99, 11, 30)}

TimesOfDay == {0, 12 * 60 * 60 * 1000, msPerDay - 1}

Dates ==
    {[days |-> first + i, ms |-> time] :
         first \in FirstDays, i \in 0..MaxDaySpan, time \in TimesOfDay}

\* Offsets of local time from UTC, in milliseconds: UTC-5, UTC and UTC+1.
ZoneOffsets == {0 - 5 * 60 * 60 * 1000, 0, 60 * 60 * 1000}

diffInDays(date1, date2, zone) ==
    LET utc1 == DateUTC(getFullYear(date1, zone), getMonth(date1, zone),
                        getDate(date1, zone))
        utc2 == DateUTC(getFullYear(date2, zone), getMonth(date2, zone),
                        getDate(date2, zone))
    IN  FloorDays(MinusTime(utc1, utc2))

InitDiffInDays ==
    Calling("diffInDays", [date1 : Dates, date2 : Dates, zone : ZoneOffsets])

Call_diffInDays ==
    /\ pc = "call"
    /\ fn = "diffInDays"
    /\ result' = diffInDays(args.date1, args.date2, args.zone)
    /\ pc' = "done"
    /\ UNCHANGED <<fn, args>>

NextDiffInDays == Call_diffInDays

SpecDiffInDays == InitDiffInDays /\ [][NextDiffInDays]_vars

\* C18: for all dates a and b, whatever their times of day,
\* diffInDays(a, b) = -diffInDays(b, a), and diffInDays(a, b) is the number
\* of calendar days from the calendar day of b to the calendar day of a
\* (0 when both fall on the same calendar day).
C18_CalendarDays ==
    Done("diffInDays") =>
        /\ result = 0 - diffInDays(args.date2, args.date1, args.zone)
        /\ result = LocalDay(args.date1, args.zone) - LocalDay(args.date2, args.zone)

(***************************************************************************)
(* getRelativeTime                                                         *)
(***************************************************************************)

MaxCount == 5

intervals ==
    <<[label |-> "year", seconds |-> 31536000],
      [label |-> "month", seconds |-> 2592000],
      [label |-> "day", seconds |-> 86400],
      [label |-> "hour", seconds |-> 3600],
      [label |-> "minute", seconds |-> 60]>>

\* Math.floor((baseDate.getTime() - date.getTime()) / 1000).
SecondsFrom(date, baseDate) ==
    LET elapsed == MinusTime(baseDate, date)
    IN  elapsed.days * (msPerDay \div 1000) + (elapsed.ms \div 1000)

getRelativeTime_justNowInclusive(date, baseDate) ==
    LET seconds == SecondsFrom(date, baseDate)
        loop[i \in 1..(Len(intervals) + 1)] ==
            IF i > Len(intervals)
            THEN "just now"
            ELSE LET interval == intervals[i]
                     count    == Abs(seconds) \div interval.seconds
                     plural   == IF count > 1 THEN "s" ELSE ""
                 IN  IF count >= 1
                     THEN IF seconds > 0
                          THEN ToString(count) \o " " \o interval.label \o plural \o " ago"
                          ELSE "in " \o ToString(count) \o " " \o interval.label \o plural
                     ELSE loop[i + 1]
    IN  IF Abs(seconds) <= 60 THEN "just now" ELSE loop[1]

getRelativeTime_pluralFromOne(date, baseDate) ==
    LET seconds == SecondsFrom(date, baseDate)
        loop[i \in 1..(Len(intervals) + 1)] ==
            IF i > Len(intervals)
            THEN "just now"
            ELSE LET interval == intervals[i]
                     count    == Abs(seconds) \div interval.seconds
                     plural   == IF count >= 1 THEN "s" ELSE ""
                 IN  IF count >= 1
                     THEN IF seconds > 0
                          THEN ToString(count) \o " " \o interval.label \o plural \o " ago"
                          ELSE "in " \o ToString(count) \o " " \o interval.label \o plural
                     ELSE loop[i + 1]
    IN  IF Abs(seconds) < 60 THEN "just now" ELSE loop[1]

\* loop[i] is what the for loop returns from its i-th interval on, and
\* 'just now' past the last one.
getRelativeTime(date, baseDate) ==
    LET seconds == SecondsFrom(date, baseDate)
        loop[i \in 1..(Len(intervals) + 1)] ==
            IF i > Len(intervals)
            THEN "just now"
            ELSE LET interval == intervals[i]
                     count    == Abs(seconds) \div interval.seconds
                     plural   == IF count > 1 THEN "s" ELSE ""
                 IN  IF count >= 1
                     THEN IF seconds > 0
                          THEN ToString(count) \o " " \o interval.label \o plural \o " ago"
                          ELSE "in " \o ToString(count) \o " " \o interval.label \o plural
                     ELSE loop[i + 1]
    IN  IF Abs(seconds) < 60 THEN "just now" ELSE loop[1]

\* The lengths that the distances between the two dates are built from: a
\* second, a minute, an hour, a day, 30 days and 365 days.
UnitLengths ==
    {[days |-> 0, ms |-> 1000], [days |-> 0, ms |-> 60 * 1000],
     [days |-> 0, ms |-> 60 * 60 * 1000], [days |-> 1, ms |-> 0],
     [days |-> 30, ms |-> 0], [days |-> 365, ms |-> 0]}

\* Milliseconds short of, or past, a whole number of units.
FineOffsets == {-500, -1, 0, 1, 500}

\* The time value n * unit + offset.
Distance(n, unit, offset) ==
    AddMs([days |-> n * unit.days + ((n * unit.ms) \div msPerDay),
           ms |-> (n * unit.ms) % msPerDay],
          offset)

\* A whole number of units, and 59 seconds, each with a fine offset.
Distances ==
    {Distance(n, unit, offset) :
         n \in 0..MaxCount, unit \in UnitLengths, offset \in FineOffsets}
        \cup {Distance(59, [days |-> 0, ms |-> 1000], offset) : offset \in FineOffsets}

\* The time value t1 + t2.
PlusTime(t1, t2) ==
    LET total == t1.ms + t2.ms
    IN  [days |-> t1.days + t2.days + (total \div msPerDay), ms |-> total % msPerDay]

BaseDates ==
    {[days |-> MakeDay(2024, 0, 15), ms |-> 0],
     [days |-> MakeDay(2024, 0, 15), ms |-> 12 * 60 * 60 * 1000 + 250]}

\* The pairs of a date and the instant it is compared with.
RelativePairs ==
    {<<PlusTime(base, distance), base>> : base \in BaseDates, distance \in Distances}
        \cup {<<MinusTime(base, distance), base>> :
                  base \in BaseDates, distance \in Distances}

\* A call gives baseDate, or leaves it out: it is then new Date(), the time
\* now of the call.
InitRelativeTime ==
    Calling("getRelativeTime",
            {[date |-> p[1], baseDate |-> p[2]] : p \in RelativePairs}
                \cup {[date |-> p[1], now |-> p[2]] : p \in RelativePairs})

Call_getRelativeTime ==
    /\ pc = "call"
    /\ fn = "getRelativeTime"
    /\ result' = getRelativeTime(args.date, OptionOr(args, "baseDate", args.now))
    /\ pc' = "done"
    /\ UNCHANGED <<fn, args>>

NextRelativeTime == Call_getRelativeTime

SpecRelativeTime == InitRelativeTime /\ [][NextRelativeTime]_vars

\* The instant that the call compares date with.
BaseOf(call) == IF "baseDate" \in DOMAIN call THEN call.baseDate ELSE call.now

\* date is earlier than base by less than limit milliseconds (limit at most
\* a day), or is the same instant.
EarlierByLessThan(date, base, limit) ==
    LET elapsed == MinusTime(base, date)
    IN  elapsed.days = 0 /\ elapsed.ms < limit

\* C19 (as claimed): getRelativeTime returns 'just now' exactly when the two
\* instants are less than 60 000 ms apart, for a date before baseDate and for
\* a date after it alike.
C19_JustNowSymmetric ==
    Done("getRelativeTime") =>
        (result = "just now"
            <=> \/ EarlierByLessThan(args.date, BaseOf(args), 60000)
                \/ EarlierByLessThan(BaseOf(args), args.date, 60000))

\* C19 (amended): getRelativeTime returns 'just now' exactly when date is
\* earlier than baseDate by less than 60 000 ms (or is the same instant), or
\* later than baseDate by at most 59 000 ms.
C19_JustNowFloored ==
    Done("getRelativeTime") =>
        (result = "just now"
            <=> \/ EarlierByLessThan(args.date, BaseOf(args), 60000)
                \/ EarlierByLessThan(BaseOf(args), args.date, 59001))

\* A date 59 500 ms after baseDate is not 'just now'.
C19_Witness ==
    /\ Done("getRelativeTime")
    /\ MinusTime(args.date, BaseOf(args)) = [days |-> 0, ms |-> 59500]
    /\ result = "in 1 minute"

\* C20: when the difference is 60 s or more, getRelativeTime reports
\* N = floor(|seconds| / unitLength) for the first unit, in the order year,
\* month, day, hour, minute, that has N >= 1, with an 's' after the unit
\* exactly when N > 1, as 'N unit(s) ago' when date is earlier than baseDate
\* and as 'in N unit(s)' when it is later; seconds is the difference
\* baseDate - date in seconds, rounded down.
C20_FirstUnit ==
    Done("getRelativeTime")
        /\ ~EarlierByLessThan(args.date, BaseOf(args), 60000)
        /\ ~EarlierByLessThan(BaseOf(args), args.date, 60000) =>
            LET seconds == SecondsFrom(args.date, BaseOf(args))
                earlier == MinusTime(BaseOf(args), args.date).days >= 0
            IN  \E i \in 1..Len(intervals) :
                    LET N    == Abs(seconds) \div intervals[i].seconds
                        unit == intervals[i].label \o (IF N = 1 THEN "" ELSE "s")
                    IN  /\ N >= 1
                        /\ \A j \in 1..(i - 1) : Abs(seconds) < intervals[j].seconds
                        /\ earlier => result = ToString(N) \o " " \o unit \o " ago"
                        /\ ~earlier => result = "in " \o ToString(N) \o " " \o unit

\* A date five days less one millisecond after the time now of the call is
\* 'in 5 days'.
C20_Witness ==
    /\ Done("getRelativeTime")
    /\ "now" \in DOMAIN args
    /\ MinusTime(args.date, args.now) = [days |-> 4, ms |-> msPerDay - 1]
    /\ result = "in 5 days"

(***************************************************************************)
(* isValidIpv4                                                             *)
(***************************************************************************)

MaxSegmentLen == 3

MaxParts == 5

IpAlphabet == {"0", "1", "2", "5", "6", "-", " "}

IpSegments == StringsUpTo(IpAlphabet, MaxSegmentLen)

\* Segments of the validation tests and their neighbours.
NotableSegments ==
    {<<>>, <<"0">>, <<"0", "1">>, <<"2", "5", "5">>, <<"2", "5", "6">>}

RECURSIVE JoinDots(_)
\* parts.join('.').
JoinDots(parts) ==
    IF Len(parts) = 1
    THEN Head(parts)
    ELSE Head(parts) \o <<".">> \o JoinDots(Tail(parts))

\* Addresses of 3..MaxParts segments, one of them any segment and the others
\* '1', and addresses of 1..MaxParts notable segments.
IpInputs ==
    {JoinDots([i \in 1..n |-> IF i = at THEN segment ELSE <<"1">>]) :
         n \in 3..MaxParts, at \in 1..MaxParts, segment \in IpSegments}
        \cup {JoinDots(parts) :
                  parts \in UNION {[1..n -> NotableSegments] : n \in 1..MaxParts}}

RECURSIVE split(_, _)
\* String.prototype.split(separator) for a one-character separator.
split(text, separator) ==
    LET found == {i \in 1..Len(text) : text[i] = separator}
    IN  IF found = {}
        THEN <<text>>
        ELSE LET i == CHOOSE i \in found : \A j \in found : i <= j
             IN  <<SubSeq(text, 1, i - 1)>>
                     \o split(SubSeq(text, i + 1, Len(text)), separator)

RECURSIVE DigitPrefix(_)
\* The longest prefix of decimal digits.
DigitPrefix(text) ==
    IF text # <<>> /\ IsDigit(Head(text))
    THEN <<Head(text)>> \o DigitPrefix(Tail(text))
    ELSE <<>>

RECURSIVE SkipSpaces(_)
\* The text without its leading whitespace.
SkipSpaces(text) ==
    IF text # <<>> /\ IsSpace(Head(text)) THEN SkipSpaces(Tail(text)) ELSE text

\* parseInt(text, 10): leading whitespace is skipped, then a sign is read,
\* then as many decimal digits as there are; NaN when there is none.  The
\* number is its sign and magnitude (-0 is a number of its own).
parseInt(text) ==
    LET body     == SkipSpaces(text)
        signed   == body # <<>> /\ Head(body) \in {"-", "+"}
        digits   == DigitPrefix(IF signed THEN Tail(body) ELSE body)
    IN  [isNaN     |-> digits = <<>>,
         negative  |-> signed /\ Head(body) = "-",
         magnitude |-> ParseDigits(digits, 0)]

\* Number.prototype.toString of what parseInt returned.
IntegerToString(num) ==
    IF num.isNaN
    THEN <<"N", "a", "N">>
    ELSE IF num.negative /\ num.magnitude > 0
    THEN <<"-">> \o NatToString(num.magnitude)
    ELSE NatToString(num.magnitude)

\* num >= 0 && num <= 255.
InByteRange(num) ==
    /\ ~num.isNaN
    /\ ~num.negative \/ num.magnitude = 0
    /\ num.magnitude <= 255

isValidIpv4_noCanonicalCheck(ip) ==
    LET parts == split(ip, ".")
    IN  IF Len(parts) # 4
        THEN FALSE
        ELSE \A p \in 1..Len(parts) : InByteRange(parseInt(parts[p]))

isValidIpv4(ip) ==
    LET parts == split(ip, ".")
    IN  IF Len(parts) # 4
        THEN FALSE
        ELSE \A p \in 1..Len(parts) :
                 LET num == parseInt(parts[p])
                 IN  InByteRange(num) /\ parts[p] = IntegerToString(num)

InitIpv4 == Calling("isValidIpv4", [ip : IpInputs])

Call_isValidIpv4 ==
    /\ pc = "call"
    /\ fn = "isValidIpv4"
    /\ result' = isValidIpv4(args.ip)
    /\ pc' = "done"
    /\ UNCHANGED <<fn, args>>

NextIpv4 == Call_isValidIpv4

SpecIpv4 == InitIpv4 /\ [][NextIpv4]_vars

\* The canonical decimal spellings of the integers 0..255.
ByteSpellings ==
    {<<a>> : a \in Range(DigitChars)}
        \cup {<<a, b>> : a \in Range(DigitChars) \ {"0"}, b \in Range(DigitChars)}
        \cup {<<"1", b, c>> : b \in Range(DigitChars), c \in Range(DigitChars)}
        \cup {<<"2", b, c>> : b \in {"0", "1", "2", "3", "4"}, c \in Range(DigitChars)}
        \cup {<<"2", "5", c>> : c \in {"0", "1", "2", "3", "4", "5"}}

\* C21: isValidIpv4(ip) is true if and only if ip splits on '.' into exactly
\* four segments and each segment is the canonical decimal spelling (no sign,
\* no leading zero, no other character, not empty) of an integer in 0..255.
C21_FourCanonicalBytes ==
    Done("isValidIpv4") =>
        LET dots   == {i \in 1..Len(args.ip) : args.ip[i] = "."}
            bounds == dots \cup {0, Len(args.ip) + 1}
        IN  result
                <=> /\ Cardinality(dots) = 3
                    /\ \A from \in bounds, to \in bounds :
                           (from < to /\ \A i \in bounds : ~(from < i /\ i < to)) =>
                               SubSeq(args.ip, from + 1, to - 1) \in ByteSpellings

\* An address whose third segment has a leading zero was rejected.
C21_Witness ==
    /\ Done("isValidIpv4")
    /\ args.ip = <<"1", ".", "1", ".", "0", "1", ".", "1">>
    /\ result = FALSE

(***************************************************************************)
(* The random source                                                       *)
(*                                                                         *)
(* A value of Math.random() is draw / RandomSteps for a draw in            *)
(* 0..RandomSteps - 1.  The values that Math.random() returns during a     *)
(* call are part of the call: the sequence random, read from its head.     *)
(***************************************************************************)

RandomSteps == 100

Draws == 0..(RandomSteps - 1)

\* The smallest and the largest value of Math.random().
EdgeDraws == {0, RandomSteps - 1}

\* randomInt(max) when Math.random() returns draw / RandomSteps.
randomInt(max, draw) == (draw * max) \div RandomSteps

(***************************************************************************)
(* randomString, randomPassword                                            *)
(***************************************************************************)

MaxRandomLen == 3

\* The string '!@#$%^&*()_+-=[]{}|;:,.<>?'.
PasswordSpecials ==
    <<"!", "@", "#", "$", "%", "^", "&", "*", "(", ")", "_", "+", "-", "=", "[",
      "]", "{", "}", "|", ";", ":", ",", ".", "<", ">", "?">>

NoCharacterTypeMessage == "At least one character type must be enabled"

\* What a call gave: the value it returned, or the message of the Error it
\* threw.
Returned(value) == [threw |-> FALSE, value |-> value]

Thrown(message) == [threw |-> TRUE, value |-> message]

RECURSIVE randomString(_, _, _)
\* The for loop of randomString: one character per iteration, one value of
\* the random source per character.
randomString(length, charset, random) ==
    IF length <= 0
    THEN <<>>
    ELSE <<charset[randomInt(Len(charset), Head(random)) + 1]>>
             \o randomString(length - 1, charset, Tail(random))

randomPassword_alwaysNumbers(length, options, random) ==
    LET uppercase == OptionOr(options, "uppercase", TRUE)
        lowercase == OptionOr(options, "lowercase", TRUE)
        special   == OptionOr(options, "special", TRUE)
        charset   == (IF lowercase THEN LowerChars ELSE <<>>)
                         \o (IF uppercase THEN UpperChars ELSE <<>>)
                         \o DigitChars
                         \o (IF special THEN PasswordSpecials ELSE <<>>)
    IN  Returned(randomString(length, charset, random))

randomPassword(length, options, random) ==
    LET uppercase == OptionOr(options, "uppercase", TRUE)
        lowercase == OptionOr(options, "lowercase", TRUE)
        numbers   == OptionOr(options, "numbers", TRUE)
        special   == OptionOr(options, "special", TRUE)
        charset   == (IF lowercase THEN LowerChars ELSE <<>>)
                         \o (IF uppercase THEN UpperChars ELSE <<>>)
                         \o (IF numbers THEN DigitChars ELSE <<>>)
                         \o (IF special THEN PasswordSpecials ELSE <<>>)
    IN  IF Len(charset) = 0
        THEN Thrown(NoCharacterTypeMessage)
        ELSE Returned(randomString(length, charset, random))

CharacterTypes == {"uppercase", "lowercase", "numbers", "special"}

\* The options objects: every subset of the character types switched off,
\* and every type given as true.
RandomPasswordOptions ==
    UNION {[K -> {FALSE}] : K \in SUBSET CharacterTypes}
        \cup {[key \in CharacterTypes |-> TRUE]}

\* The values of the random source for n characters: any value first, then
\* the smallest or the largest.
RandomValues(n) ==
    IF n = 0
    THEN {<<>>}
    ELSE {<<first>> \o rest : first \in Draws, rest \in [1..(n - 1) -> EdgeDraws]}

\* Values that draw a lowercase letter, an uppercase letter, a digit and four
\* more lowercase letters out of the full character set.
StrongDraws ==
    <<0, RandomSteps \div 3, (2 * RandomSteps) \div 3, 0, 0, 0, 0>>

\* Calls of 0..MaxRandomLen characters with every options object, and calls
\* with the default options of one character more than StrongDraws gives.
InitRandomPassword ==
    Calling("randomPassword",
            UNION {[length : {n}, options : RandomPasswordOptions,
                    random : RandomValues(n)] : n \in 0..MaxRandomLen}
                \cup [length : {Len(StrongDraws) + 1}, options : {<<>>},
                      random : {Append(StrongDraws, last) : last \in Draws}])

Call_randomPassword ==
    /\ pc = "call"
    /\ fn = "randomPassword"
    /\ result' = randomPassword(args.length, args.options, args.random)
    /\ pc' = "done"
    /\ UNCHANGED <<fn, args>>

\* The caller passes the password that randomPassword returned to
\* validatePassword, with no options.
Call_validateGenerated ==
    /\ pc = "done"
    /\ fn = "randomPassword"
    /\ ~result.threw
    /\ fn' = "validatePassword"
    /\ args' = [password |-> result.value, options |-> <<>>]
    /\ result' = <<>>
    /\ pc' = "call"

NextRandomPassword ==
    Call_randomPassword \/ Call_validateGenerated \/ Call_validatePassword

SpecRandomPassword == InitRandomPassword /\ [][NextRandomPassword]_vars

\* The characters of the classes that the options leave enabled.
EnabledChars(options) ==
    UNION {IF OptionOr(options, "lowercase", TRUE) THEN Range(LowerChars) ELSE {},
           IF OptionOr(options, "uppercase", TRUE) THEN Range(UpperChars) ELSE {},
           IF OptionOr(options, "numbers", TRUE) THEN Range(DigitChars) ELSE {},
           IF OptionOr(options, "special", TRUE) THEN Range(PasswordSpecials) ELSE {}}

\* C22: randomPassword throws exactly when uppercase, lowercase, numbers and
\* special are all disabled, for every length, 0 included; otherwise it
\* returns a string of exactly length characters, each from the union of the
\* enabled classes, for every outcome of the random source.
C22_ThrowsOnlyWithoutClasses ==
    Done("randomPassword") =>
        /\ result.threw <=>
               \A type \in CharacterTypes : ~OptionOr(args.options, type, TRUE)
        /\ ~result.threw =>
               /\ Len(result.value) = args.length
               /\ \A i \in 1..Len(result.value) :
                      result.value[i] \in EnabledChars(args.options)

\* A call of length 0 with every class disabled threw.
C22_Witness ==
    /\ Done("randomPassword")
    /\ args.length = 0
    /\ args.options = [key \in CharacterTypes |-> FALSE]
    /\ result = Thrown(NoCharacterTypeMessage)

\* C29: every character of randomPassword's special class passes
\* validatePassword's special-character check, so that a generated password
\* of 8 or more characters with a lowercase letter, an uppercase letter, a
\* digit and a character of the special class is valid under the default
\* options.
C29_GeneratedIsValid ==
    Done("validatePassword")
        /\ Len(args.password) >= 8
        /\ HasChar(args.password, Range(LowerChars))
        /\ HasChar(args.password, Range(UpperChars))
        /\ HasChar(args.password, Range(DigitChars))
        /\ HasChar(args.password, Range(PasswordSpecials)) =>
            result.isValid

(***************************************************************************)
(* randomUuid                                                              *)
(***************************************************************************)

\* The digits of Number.prototype.toString(16).
HexChars ==
    <<"0", "1", "2", "3", "4", "5", "6", "7", "8", "9", "a", "b", "c", "d", "e", "f">>

UuidTemplate ==
    <<"x", "x", "x", "x", "x", "x", "x", "x", "-", "x", "x", "x", "x", "-",
      "4", "x", "x", "x", "-", "y", "x", "x", "x", "-",
      "x", "x", "x", "x", "x", "x", "x", "x", "x", "x", "x", "x">>

\* The number of characters that the template has replaced.
UuidDraws == Cardinality({i \in DOMAIN UuidTemplate : UuidTemplate[i] \in {"x", "y"}})

\* The replacement callback: for r in 0..15, (r & 0x3) | 0x8 is the two low
\* bits of r with the bit of weight 8 set.
UuidDigit(c, draw) ==
    LET r == randomInt(16, draw)
        v == IF c = "x" THEN r ELSE (r % 4) + 8
    IN  HexChars[v + 1]

RECURSIVE ReplaceXY(_, _)
\* template.replace(/[xy]/g, callback): the callback runs once per match,
\* from left to right, and takes the next value of the random source.
ReplaceXY(template, random) ==
    IF template = <<>>
    THEN <<>>
    ELSE IF Head(template) \in {"x", "y"}
    THEN <<UuidDigit(Head(template), Head(random))>>
             \o ReplaceXY(Tail(template), Tail(random))
    ELSE <<Head(template)>> \o ReplaceXY(Tail(template), random)

randomUuid_variantUnmasked(random) ==
    ReplaceXY([i \in DOMAIN UuidTemplate |->
                   IF UuidTemplate[i] = "y" THEN "x" ELSE UuidTemplate[i]],
              random)

randomUuid(random) == ReplaceXY(UuidTemplate, random)

\* The values of the random source of a call: any value for one replaced
\* character, and the smallest or the largest for all the others.
InitUuid ==
    Calling("randomUuid",
            [random : {[i \in 1..UuidDraws |-> IF i = at THEN draw ELSE edge] :
                           at \in 1..UuidDraws, draw \in Draws, edge \in EdgeDraws}])

Call_randomUuid ==
    /\ pc = "call"
    /\ fn = "randomUuid"
    /\ result' = randomUuid(args.random)
    /\ pc' = "done"
    /\ UNCHANGED <<fn, args>>

NextUuid == Call_randomUuid

SpecUuid == InitUuid /\ [][NextUuid]_vars

\* C23: for every outcome of the random source randomUuid returns 36
\* characters, lowercase hexadecimal digits in the 8-4-4-4-12 layout with
\* hyphens at positions 9, 14, 19 and 24, the 15th character '4' and the 20th
\* one of 8, 9, a, b; each of these four is the 20th character for some
\* value of the random source.
C23_Version4Layout ==
    Done("randomUuid") =>
        /\ Len(result) = 36
        /\ \A i \in 1..Len(result) :
               IF i \in {9, 14, 19, 24}
               THEN result[i] = "-"
               ELSE result[i] \in Range(HexChars)
        /\ result[15] = "4"
        /\ result[20] \in {"8", "9", "a", "b"}
        /\ \A v \in {"8", "9", "a", "b"} : \E draw \in Draws : UuidDigit("y", draw) = v

\* The variant character was drawn from a value of the random source that,
\* unmasked, is the digit f.
C23_Witness ==
    /\ Done("randomUuid")
    /\ randomInt(16, args.random[16]) = 15
    /\ result[20] = "b"
    /\ result[1] = "0"

(***************************************************************************)
(* isValidCreditCard on a card number with one digit replaced              *)
(***************************************************************************)

MaxSubstitutionLen == 3

SubstitutionInputs ==
    StringsUpTo(Range(DigitChars), MaxSubstitutionLen)
        \cup {Card4532015112830366, Card6011000990139424}

InitSubstitution ==
    Calling("isValidCreditCard", {[cardNumber |-> c] : c \in SubstitutionInputs})

\* The caller replaces one digit of an accepted card number by a different
\* digit and validates the new string.
Call_isValidSubstituted ==
    /\ Done("isValidCreditCard")
    /\ result = TRUE
    /\ "accepted" \notin DOMAIN args
    /\ \E position \in 1..Len(args.cardNumber), digit \in Range(DigitChars) :
           /\ IsDigit(args.cardNumber[position])
           /\ digit # args.cardNumber[position]
           /\ args' = [cardNumber |-> [args.cardNumber EXCEPT ![position] = digit],
                       accepted   |-> args.cardNumber]
    /\ result' = <<>>
    /\ pc' = "call"
    /\ UNCHANGED fn

NextSubstitution == Call_isValidCreditCard \/ Call_isValidSubstituted

SpecSubstitution == InitSubstitution /\ [][NextSubstitution]_vars

\* C25: for every digit string that isValidCreditCard accepts, the string
\* with any single digit, at any position, replaced by any different digit is
\* rejected by isValidCreditCard.
C25_SingleDigitErrorRejected ==
    (Done("isValidCreditCard") /\ "accepted" \in DOMAIN args) => result = FALSE

\* The card number 4532015112830366 of the tests was accepted, and with its
\* last digit but one, a doubled one, replaced by 1 it has been validated
\* again.
C25_Witness ==
    /\ Done("isValidCreditCard")
    /\ "accepted" \in DOMAIN args
    /\ args.accepted = Card4532015112830366
    /\ args.cardNumber = [Card4532015112830366 EXCEPT ![15] = "1"]

(***************************************************************************)
(* diffInHours and diffInMinutes                                           *)
(***************************************************************************)

\* The largest and smallest time values of a Date, 100 000 000 days from
\* 1 January 1970.
MaxTime == [days |-> 100000000, ms |-> 0]

MinTime == [days |-> 0 - 100000000, ms |-> 0]

\* 2^53 milliseconds: up to it every whole number is a Number; from it to
\* 2^54 only the even ones are.
TwoTo53 == [days |-> 104249991, ms |-> 32340992]

TimeLess(t1, t2) ==
    t1.days < t2.days \/ (t1.days = t2.days /\ t1.ms < t2.ms)

\* date1.getTime() - date2.getTime() as a Number: the difference rounded to
\* the nearest Number, a tie going to the one with the even significand.
NumberMinus(t1, t2) ==
    LET exact == MinusTime(t1, t2)
        large == \/ TimeLess(TwoTo53, exact)
                 \/ TimeLess(exact, MinusTime([days |-> 0, ms |-> 0], TwoTo53))
    IN  IF large /\ exact.ms % 2 = 1
        THEN IF exact.ms % 4 = 1 THEN AddMs(exact, 0 - 1) ELSE AddMs(exact, 1)
        ELSE exact

\* Math.floor(t / msPerUnit) for a unit that divides the day, as the whole
\* days and the whole units of the last day (the count itself,
\* days * (msPerDay / msPerUnit) + units, passes 2^31 for the largest
\* differences).  The division is rounded as well, but never across a whole
\* number: the quotient of a difference below 2^53 is at least 1 / msPerUnit
\* away from one, and that of an even difference at least 2 / msPerUnit.
FloorUnits(t, msPerUnit) ==
    [days |-> t.days, units |-> t.ms \div msPerUnit]

diffInHours(date1, date2) ==
    LET msPerHour == 60 * 60 * 1000
    IN  FloorUnits(NumberMinus(date1, date2), msPerHour)

diffInMinutes(date1, date2) ==
    LET msPerMinute == 60 * 1000
    IN  FloorUnits(NumberMinus(date1, date2), msPerMinute)

\* The instants of the calls: the dates of diffInDays, half past twelve and a
\* millisecond later on 15 January 2024, and the first and last instants a
\* Date can hold with the instants 1 and 3 ms inside them.
HalfPastTwelve == (12 * 60 + 30) * 60 * 1000

Instants ==
    Dates
        \cup {[days |-> MakeDay(2024, 0, 15), ms |-> HalfPastTwelve + i] : i \in 0..1}
        \cup {AddMs(MaxTime, 0 - i) : i \in {0, 1, 3}}
        \cup {AddMs(MinTime, i) : i \in {0, 1, 3}}

InitDiffInHours ==
    \/ Calling("diffInHours", [date1 : Instants, date2 : Instants])
    \/ Calling("diffInMinutes", [date1 : Instants, date2 : Instants])

Call_diffInHours ==
    /\ pc = "call"
    /\ fn = "diffInHours"
    /\ result' = diffInHours(args.date1, args.date2)
    /\ pc' = "done"
    /\ UNCHANGED <<fn, args>>

\* The caller asks for the difference the other way round as well.
Call_diffInHoursBack ==
    /\ pc = "done"
    /\ fn = "diffInHours"
    /\ fn' = "diffInHoursBack"
    /\ result' = [there |-> result, back |-> diffInHours(args.date2, args.date1)]
    /\ UNCHANGED <<args, pc>>

Call_diffInMinutes ==
    /\ pc = "call"
    /\ fn = "diffInMinutes"
    /\ result' = diffInMinutes(args.date1, args.date2)
    /\ pc' = "done"
    /\ UNCHANGED <<fn, args>>

Call_diffInMinutesBack ==
    /\ pc = "done"
    /\ fn = "diffInMinutes"
    /\ fn' = "diffInMinutesBack"
    /\ result' = [there |-> result, back |-> diffInMinutes(args.date2, args.date1)]
    /\ UNCHANGED <<args, pc>>

NextDiffInHours ==
    \/ Call_diffInHours
    \/ Call_diffInHoursBack
    \/ Call_diffInMinutes
    \/ Call_diffInMinutesBack

SpecDiffInHours == InitDiffInHours /\ [][NextDiffInHours]_vars

\* The sum of two counts of units, unitsPerDay of them making a day, is n
\* (n = 0 or n = -1).
SumIs(x, y, unitsPerDay, n) ==
    LET units == x.units + y.units
        days  == x.days + y.days + (units \div unitsPerDay)
    IN  IF n = 0
        THEN days = 0 /\ units % unitsPerDay = 0
        ELSE days = 0 - 1 /\ units % unitsPerDay = unitsPerDay - 1

\* C27: for all instants a and b, diffInHours(a, b) + diffInHours(b, a) is 0
\* when a and b differ by a whole number of hours and -1 otherwise, and
\* diffInMinutes(a, b) + diffInMinutes(b, a) is 0 when they differ by a
\* whole number of minutes and -1 otherwise.
C27_SumZeroOrMinusOne ==
    LET exact == MinusTime(args.date1, args.date2)
    IN  /\ Done("diffInHoursBack") =>
               SumIs(result.there, result.back, 24,
                     IF exact.ms % (60 * 60 * 1000) = 0 THEN 0 ELSE 0 - 1)
        /\ Done("diffInMinutesBack") =>
               SumIs(result.there, result.back, 24 * 60,
                     IF exact.ms % (60 * 1000) = 0 THEN 0 ELSE 0 - 1)

(***************************************************************************)
(* paginate, page after page                                               *)
(***************************************************************************)

\* The caller starts at page 1 with nothing collected.
InitPaginateAll ==
    Calling("paginate",
            {[array |-> a, page |-> 1, pageSize |-> s, collected |-> <<>>] :
                 a \in Arrays \cup {OneToFive}, s \in 1..MaxPageSize})

\* The caller keeps the data of the page it got and asks for the next page,
\* as long as totalPages says there is one.
Call_paginateNextPage ==
    /\ Done("paginate")
    /\ "collected" \in DOMAIN args
    /\ args.page < result.totalPages
    /\ args' = [args EXCEPT !.page = args.page + 1,
                            !.collected = args.collected \o result.data]
    /\ result' = <<>>
    /\ pc' = "call"
    /\ UNCHANGED fn

NextPaginateAll == Call_paginate \/ Call_paginateNextPage

SpecPaginateAll == InitPaginateAll /\ [][NextPaginateAll]_vars

\* C28: for every array and every pageSize >= 1, the data of
\* paginate(array, p, pageSize) for p = 1..totalPages, concatenated in
\* order, are exactly the array; every page in that range is non-empty and
\* has at most pageSize elements; the page and pageSize fields of the result
\* are the arguments.
C28_PagesPartition ==
    (Done("paginate") /\ "collected" \in DOMAIN args) =>
        /\ result.page = args.page
        /\ result.pageSize = args.pageSize
        /\ args.page <= result.totalPages =>
               /\ result.data # <<>>
               /\ Len(result.data) <= args.pageSize
        /\ args.page = result.totalPages =>
               args.collected \o result.data = args.array
        /\ result.totalPages = 0 => args.array = <<>>

\* The third and last page of [1, 2, 3, 4, 5] by twos has been returned: it
\* holds one element.
C28_Witness ==
    /\ Done("paginate")
    /\ "collected" \in DOMAIN args
    /\ args.array = OneToFive
    /\ args.page = 3
    /\ result.totalPages = 3
    /\ args.collected = <<1, 2, 3, 4>>
    /\ Len(result.data) = 1

(***************************************************************************)
(* chunk, one iteration of its loop at a time                              *)
(***************************************************************************)

\* The windows the engine has memory for: more than any loop that ends
\* pushes (one for each element at most).  A loop that does not end fills
\* the memory, and the call is ended by the engine's error.
MaxChunkPushes == 7

\* The state after "const chunks = []" and "let i = 0", the two locals
\* being kept with the arguments; the size is any integer, 0 and the
\* negative ones included.
InitChunkLoop ==
    /\ fn = "chunk"
    /\ args \in [array : Arrays \cup {OneToFive},
                 size : (0 - MaxChunkSize)..MaxChunkSize,
                 i : {0}, chunks : {<<>>}]
    /\ result = <<>>
    /\ pc = "loop"

\* One iteration: the test i < array.length holds, a window is pushed and
\* size is added to i.
chunk_push ==
    /\ pc = "loop"
    /\ fn = "chunk"
    /\ args.i < Len(args.array)
    /\ Len(args.chunks) < MaxChunkPushes
    /\ args' = [args EXCEPT !.i = args.i + args.size,
                            !.chunks = Append(args.chunks,
                                              Slice(args.array, args.i, args.i + args.size))]
    /\ UNCHANGED <<fn, result, pc>>

\* The test i < array.length fails: the loop ends and chunks is returned.
chunk_return ==
    /\ pc = "loop"
    /\ fn = "chunk"
    /\ ~(args.i < Len(args.array))
    /\ result' = args.chunks
    /\ pc' = "done"
    /\ UNCHANGED <<fn, args>>

\* The test holds but chunks cannot grow: the push throws (RangeError, or
\* the engine gives up for lack of memory) and the call ends without a
\* result.
chunk_outOfMemory ==
    /\ pc = "loop"
    /\ fn = "chunk"
    /\ args.i < Len(args.array)
    /\ Len(args.chunks) >= MaxChunkPushes
    /\ pc' = "threw"
    /\ UNCHANGED <<fn, args, result>>

NextChunkLoop == chunk_push \/ chunk_return \/ chunk_outOfMemory

\* The loop runs on as long as it can: no call stops half-way of itself.
SpecChunkLoop ==
    InitChunkLoop /\ [][NextChunkLoop]_vars /\ WF_vars(NextChunkLoop)

\* C26: chunk(array, size) terminates and returns a result for every array
\* and every integer size, size 0 and the negative sizes with a non-empty
\* array included.
C26_ChunkReturns == <>(pc = "done")

\* With a size of 1 or more, or an empty array, the call does return, and
\* what it returns is what chunk computes in one go.
C26_ReturnsForPositiveSize ==
    (args.size >= 1 \/ args.array = <<>>) ~> (pc = "done")

\* With a size of 0 or less and a non-empty array, i never gets past 0 and
\* the call never returns: it pushes windows until it is ended.
C26_StuckAtNonPositiveSize ==
    (args.size <= 0 /\ args.array # <<>>) =>
        /\ pc \in {"loop", "threw"}
        /\ args.i <= 0
        /\ args.i = args.size * Len(args.chunks)

(***************************************************************************)
(* shuffleArray and shuffle                                                *)
(*                                                                         *)
(* Both are the same loop over a copy of the array, i running from the     *)
(* last index down to 1; each iteration takes the next value of the        *)
(* random source.                                                          *)
(***************************************************************************)

\* [result[i], result[j]] = [result[j], result[i]], indices counted from 0.
Swap_overwrite(result_, i, j) == [result_ EXCEPT ![i + 1] = result_[j + 1]]

Swap(result_, i, j) ==
    [result_ EXCEPT ![i + 1] = result_[j + 1], ![j + 1] = result_[i + 1]]

shuffleArray(array, random) ==
    LET n == Len(array)
        loop[turn \in 0..Max(n - 1, 0)] ==
            IF turn = 0
            THEN array
            ELSE LET i == n - turn
                     j == (random[turn] * (i + 1)) \div RandomSteps
                 IN  Swap(loop[turn - 1], i, j)
    IN  loop[Max(n - 1, 0)]

shuffle(array, random) ==
    LET n == Len(array)
        loop[turn \in 0..Max(n - 1, 0)] ==
            IF turn = 0
            THEN array
            ELSE LET i == n - turn
                     j == randomInt(i + 1, random[turn])
                 IN  Swap(loop[turn - 1], i, j)
    IN  loop[Max(n - 1, 0)]

\* The state after "const result = [...array]" and "let i = result.length
\* - 1", the two locals being kept with the argument, and with them the
\* swap indices j drawn so far.
InitShuffle ==
    /\ fn \in {"shuffleArray", "shuffle"}
    /\ \E array \in Arrays \cup {OneToFive} :
           args = [array |-> array, result |-> array, i |-> Len(array) - 1,
                   indices |-> <<>>]
    /\ result = <<>>
    /\ pc = "loop"

\* One iteration of shuffleArray: the test i > 0 holds, j is drawn, the
\* elements at i and j are exchanged and i is decreased.
shuffleArray_swap ==
    /\ pc = "loop"
    /\ fn = "shuffleArray"
    /\ args.i > 0
    /\ \E draw \in Draws :
           LET j == (draw * (args.i + 1)) \div RandomSteps
           IN  args' = [args EXCEPT !.result = Swap(args.result, args.i, j),
                                    !.i = args.i - 1,
                                    !.indices = Append(args.indices, j)]
    /\ UNCHANGED <<fn, result, pc>>

shuffleArray_return ==
    /\ pc = "loop"
    /\ fn = "shuffleArray"
    /\ ~(args.i > 0)
    /\ result' = args.result
    /\ pc' = "done"
    /\ UNCHANGED <<fn, args>>

\* One iteration of shuffle: as above, j being randomInt(i + 1).
shuffle_swap ==
    /\ pc = "loop"
    /\ fn = "shuffle"
    /\ args.i > 0
    /\ \E draw \in Draws :
           LET j == randomInt(args.i + 1, draw)
           IN  args' = [args EXCEPT !.result = Swap(args.result, args.i, j),
                                    !.i = args.i - 1,
                                    !.indices = Append(args.indices, j)]
    /\ UNCHANGED <<fn, result, pc>>

shuffle_return ==
    /\ pc = "loop"
    /\ fn = "shuffle"
    /\ ~(args.i > 0)
    /\ result' = args.result
    /\ pc' = "done"
    /\ UNCHANGED <<fn, args>>

NextShuffle ==
    \/ shuffleArray_swap
    \/ shuffleArray_return
    \/ shuffle_swap
    \/ shuffle_return

\* The loop runs on as long as it can.
SpecShuffle == InitShuffle /\ [][NextShuffle]_vars /\ WF_vars(NextShuffle)

\* How many times x occurs in the array.
Occurrences(array, x) == Cardinality({turn \in DOMAIN array : array[turn] = x})

IsPermutationOf(a, b) ==
    /\ Len(a) = Len(b)
    /\ \A x \in Range(a) \cup Range(b) : Occurrences(a, x) = Occurrences(b, x)

PermutationsOf(array) ==
    {p \in [1..Len(array) -> Range(array)] : IsPermutationOf(p, array)}

\* The lists of swap indices a call on n elements can draw, one for each
\* turn of the loop (i = n - turn), and values of the random source that
\* draw them.
IndexLists(n) ==
    {js \in [1..Max(n - 1, 0) -> 0..Max(n - 1, 0)] :
         \A turn \in DOMAIN js : js[turn] <= n - turn}

DrawsFor(js, n) ==
    [turn \in DOMAIN js |-> (js[turn] * RandomSteps + (n - turn)) \div (n - turn + 1)]

\* The safety half of C30, for a call that has made the given number of
\* swaps when it returns.
ShuffleOutcome(swaps) ==
    /\ pc = "done" =>
           /\ Len(args.indices) = swaps
           /\ IsPermutationOf(result, args.array)
    /\ \A turn \in DOMAIN args.indices :
           0 <= args.indices[turn] /\ args.indices[turn] <= Len(args.array) - turn
    /\ (pc = "loop" /\ args.indices = <<>>) =>
           \A p \in PermutationsOf(args.array) :
               \E js \in IndexLists(Len(args.array)) :
                   LET random == DrawsFor(js, Len(args.array))
                   IN  /\ Range(random) \subseteq Draws
                       /\ fn = "shuffleArray" => shuffleArray(args.array, random) = p
                       /\ fn = "shuffle" => shuffle(args.array, random) = p

\* C30 as stated: for every input array and every sequence of values of the
\* random source in [0, 1), shuffleArray and shuffle terminate after
\* length - 1 swaps, every swap index j satisfies 0 <= j <= i, and the
\* result is a permutation of the input; every permutation of the input is
\* the result for some sequence of values.
C30_LengthMinusOneSwaps ==
    [](ShuffleOutcome(Len(args.array) - 1)) /\ <>(pc = "done")

\* C30, amended: as above, the number of swaps being length - 1 for a
\* non-empty array and 0 for the empty one.
C30_SwapsButNoneWhenEmpty ==
    [](ShuffleOutcome(Max(Len(args.array) - 1, 0))) /\ <>(pc = "done")

\* shuffleArray has returned [1, 2, 3, 4, 5] reversed, after 4 swaps.
C30_Witness ==
    /\ Done("shuffleArray")
    /\ args.array = OneToFive
    /\ result = <<5, 4, 3, 2, 1>>
    /\ Len(args.indices) = 4

(***************************************************************************)
(* The array helpers and the array they are given                          *)
(*                                                                         *)
(* One array object is handed to helper after helper.  args.array is what  *)
(* the object holds now and args.other what a second array, the other      *)
(* operand of intersection, difference and union, holds; args.before is    *)
(* what the two held at first.  The result of a call records the value     *)
(* returned and whether it is the very object passed in (sameObject) or an *)
(* array made by the call.  The elements are objects with the properties   *)
(* id and name, two of them having the same id.                            *)
(***************************************************************************)

MaxFrameLen == 3

Objects ==
    {[id |-> 1, name |-> "a"], [id |-> 1, name |-> "b"], [id |-> 2, name |-> "c"]}

FrameArrays == StringsUpTo(Objects, MaxFrameLen)

OtherArrays == StringsUpTo(Objects, 1)

\* Values of the random source for a shuffle of n elements: the smallest,
\* the middle and the largest value at each turn.
FrameDraws(n) ==
    [1..Max(n - 1, 0) -> EdgeDraws \cup {RandomSteps \div 2}]

\* [...array].sort(compare): the copy sorted, elements that compare equal
\* staying in their order.  sorted[n] is the first n elements sorted; the
\* next one goes behind the elements it does not come before.
sortBy(array, property, order) ==
    LET comesBefore(a, b) ==
            LET aVal == a[property]
                bVal == b[property]
            IN  IF order = "asc" THEN aVal < bVal ELSE aVal > bVal
        sorted[n \in 0..Len(array)] ==
            IF n = 0
            THEN <<>>
            ELSE LET item == array[n]
                     prev == sorted[n - 1]
                     keep == Cardinality({m \in 1..Len(prev) :
                                              ~comesBefore(item, prev[m])})
                 IN  SubSeq(prev, 1, keep) \o <<item>>
                         \o SubSeq(prev, keep + 1, Len(prev))
    IN  sorted[Len(array)]

\* The object returned by groupBy, as the function from its keys,
\* String(item[property]), to the arrays of items.
groupBy(array, property) ==
    LET key(item) == NatToString(item[property])
    IN  [group \in {key(array[n]) : n \in DOMAIN array} |->
             SelectSeq(array, LAMBDA item : key(item) = group)]

sample(array, count, random) ==
    LET shuffled == shuffleArray(array, random)
    IN  Slice(shuffled, 0, Min(count, Len(array)))

\* What a call returns: an array (or an object) it has made, or the object
\* it was given.
NewObject(value) == [value |-> value, sameObject |-> FALSE]

SameObject(value) == [value |-> value, sameObject |-> TRUE]

InitFrame ==
    /\ fn = "none"
    /\ \E array \in FrameArrays, other \in OtherArrays :
           args = [array |-> array, other |-> other,
                   before |-> [array |-> array, other |-> other]]
    /\ result = <<>>
    /\ pc = "call"

\* sortBy sorts the copy [...array] in place and returns it.
Frame_sortBy ==
    /\ fn' = "sortBy"
    /\ \E order \in {"asc", "desc"} :
           result' = NewObject(sortBy(args.array, "id", order))
    /\ pc' = "done"
    /\ UNCHANGED args

\* shuffleArray swaps the elements of the copy [...array] and returns it.
Frame_shuffleArray ==
    /\ fn' = "shuffleArray"
    /\ \E random \in FrameDraws(Len(args.array)) :
           result' = NewObject(shuffleArray(args.array, random))
    /\ pc' = "done"
    /\ UNCHANGED args

\* sample returns a slice of the array shuffleArray made.
Frame_sample ==
    /\ fn' = "sample"
    /\ \E count \in 0..MaxFrameLen, random \in FrameDraws(Len(args.array)) :
           result' = NewObject(sample(args.array, count, random))
    /\ pc' = "done"
    /\ UNCHANGED args

\* chunk returns its array chunks, of slices of the input.
Frame_chunk ==
    /\ fn' = "chunk"
    /\ \E size \in 1..MaxChunkSize :
           result' = NewObject(chunk(args.array, size))
    /\ pc' = "done"
    /\ UNCHANGED args

\* rotate returns an array literal made of two slices.
Frame_rotate ==
    /\ fn' = "rotate"
    /\ \E positions \in (0 - MaxPositions)..MaxPositions :
           result' = NewObject(rotate(args.array, positions))
    /\ pc' = "done"
    /\ UNCHANGED args

\* paginate returns an object whose data is a slice.
Frame_paginate ==
    /\ fn' = "paginate"
    /\ \E page \in 1..MaxPage, pageSize \in 1..MaxPageSize :
           result' = NewObject(paginate(args.array, page, pageSize))
    /\ pc' = "done"
    /\ UNCHANGED args

\* groupBy pushes the items on arrays of the object it builds.
Frame_groupBy ==
    /\ fn' = "groupBy"
    /\ result' = NewObject(groupBy(args.array, "id"))
    /\ pc' = "done"
    /\ UNCHANGED args

\* unique returns an array literal spread from a Set.
Frame_unique ==
    /\ fn' = "unique"
    /\ result' = NewObject(unique(args.array))
    /\ pc' = "done"
    /\ UNCHANGED args

\* intersection returns what unique returns for the filtered array.
Frame_intersection ==
    /\ fn' = "intersection"
    /\ result' = NewObject(intersection(args.array, args.other))
    /\ pc' = "done"
    /\ UNCHANGED args

\* difference returns the array filter made.
Frame_difference ==
    /\ fn' = "difference"
    /\ result' = NewObject(difference(args.array, args.other))
    /\ pc' = "done"
    /\ UNCHANGED args

\* union returns what unique returns for an array literal.
Frame_union ==
    /\ fn' = "union"
    /\ result' = NewObject(union(args.array, args.other))
    /\ pc' = "done"
    /\ UNCHANGED args

\* flatten returns the array it was given when depth is 0 ("return array")
\* and the accumulator of its reduce, begun as [], otherwise; with no depth
\* given the depth is 1.
Frame_flatten ==
    /\ fn' = "flatten"
    /\ \E depth \in 0..MaxDepth :
           result' = IF depth = 0
                     THEN SameObject(args.array)
                     ELSE NewObject(flatten(args.array, depth))
    /\ pc' = "done"
    /\ UNCHANGED args

NextFrame ==
    \/ Frame_sortBy
    \/ Frame_shuffleArray
    \/ Frame_sample
    \/ Frame_chunk
    \/ Frame_rotate
    \/ Frame_paginate
    \/ Frame_groupBy
    \/ Frame_unique
    \/ Frame_intersection
    \/ Frame_difference
    \/ Frame_union
    \/ Frame_flatten

SpecFrame == InitFrame /\ [][NextFrame]_vars

ArrayHelpers ==
    {"sortBy", "shuffleArray", "sample", "chunk", "rotate", "paginate",
     "groupBy", "unique", "intersection", "difference", "union", "flatten"}

\* C24: no array helper changes its input: after any sequence of calls of
\* sortBy, shuffleArray, sample, chunk, rotate, paginate, groupBy, unique,
\* intersection, difference, union and flatten on an array, the array holds
\* the same elements in the same order as before the calls, and every call
\* has returned a sequence distinct from its input, flatten with depth 0
\* included.
C24_InputKeptResultNew ==
    (pc = "done" /\ fn \in ArrayHelpers) =>
        /\ args.array = args.before.array
        /\ args.other = args.before.other
        /\ ~result.sameObject

\* Every call but flatten with depth 0 returns an array of its own, and no
\* call changes what the input holds.
C24_OnlyFlattenReturnsInput ==
    (pc = "done" /\ fn \in ArrayHelpers) =>
        /\ args.array = args.before.array
        /\ args.other = args.before.other
        /\ result.sameObject => fn = "flatten" /\ result.value = args.array

(***************************************************************************)
(* The library as a whole: any one helper is called.                       *)
(***************************************************************************)

Init ==
    \/ InitCreditCard
    \/ InitPassword
    \/ InitFileSize
    \/ InitNumber
    \/ InitMask
    \/ InitTruncate
    \/ InitHtml
    \/ InitCase
    \/ InitFormatCard
    \/ InitSlugify
    \/ InitPaginate
    \/ InitRotate
    \/ InitSetOps
    \/ InitAverage
    \/ InitChunk
    \/ InitFlatten
    \/ InitDiffInDays
    \/ InitRelativeTime
    \/ InitIpv4
    \/ InitRandomPassword
    \/ InitUuid
    \/ InitSubstitution
    \/ InitDiffInHours
    \/ InitPaginateAll
    \/ InitChunkLoop
    \/ InitShuffle
    \/ InitFrame

Next ==
    \/ NextCreditCard
    \/ NextPassword
    \/ NextFileSize
    \/ NextNumber
    \/ NextMask
    \/ NextTruncate
    \/ NextHtml
    \/ NextCase
    \/ NextFormatCard
    \/ NextSlugify
    \/ NextPaginate
    \/ NextRotate
    \/ NextSetOps
    \/ NextAverage
    \/ NextChunk
    \/ NextFlatten
    \/ NextDiffInDays
    \/ NextRelativeTime
    \/ NextIpv4
    \/ NextRandomPassword
    \/ NextUuid
    \/ NextSubstitution
    \/ NextDiffInHours
    \/ NextPaginateAll
    \/ NextChunkLoop
    \/ NextShuffle
    \/ NextFrame

Spec == Init /\ [][Next]_vars

====
